---- MODULE Spec2Model ----
(***************************************************************************)
(* Cadrys inventory sync and quoting service.                              *)
(*                                                                         *)
(* Money is an integer number of mills (1/1000 of the currency unit), so   *)
(* that Prisma.Decimal arithmetic is exact and toDecimalPlaces(2) is a     *)
(* real rounding (to a multiple of 10 mills, half away from zero).         *)
(* The tax rate is an integer percentage.                                  *)
(***************************************************************************)
EXTENDS Integers, Sequences, FiniteSets, TLC

VARIABLES
    products,     \* Product table: a set of rows
    quotes,       \* Quote table: a sequence, quote id = index
    items,        \* QuoteItem table: a set of rows
    nextItemId,   \* QuoteItem autoincrement
    taxRate,      \* QUOTE_TAX_RATE, in percent
    smtp,         \* whether a mail transport is configured
    lastOp,       \* the last completed HTTP request and its status code
    reqs,         \* in-flight item mutations (interleaved-handler model)
    fetch,        \* one call of fetchWithRetry
    upstream,     \* what the EXO list and detail endpoints currently serve
    runs,         \* the syncProducts invocations, one per trigger
    hist,         \* rows and upstream at the end of the last complete run
    pager,        \* one call of fetchExoProductsList
    isSyncing     \* the in-flight flag of the guarded syncProducts

syncSide == <<fetch, upstream, runs, hist, pager, isSyncing>>
quoteSide == <<quotes, items, nextItemId, taxRate, smtp, lastOp, reqs>>
vars == <<products, quoteSide, syncSide>>

----------------------------------------------------------------------------
(* Bounds *)

MaxQuotes == 2
MaxItems == 2
MaxQty == 3
QtyHi == 2

Null == "null"
Absent == "absent"

StockCodes == {"X", "Y"}
QtyInputs == (0 - 1)..QtyHi
QuoteIds == 1..(MaxQuotes + 1)
ItemIds == 1..(MaxItems + 1)
TaxRates == {0, 10}

\* a JSON value found in totalinstock: an integer n, the number n + 1/2, a
\* string that is no number, or nothing (undefined / null)
JsInt(n) == [kind |-> "int", n |-> n]
JsFrac(n) == [kind |-> "frac", n |-> n]
JsText == [kind |-> "text", n |-> 0]
JsMissing == [kind |-> "missing", n |-> 0]

\* upstream detail records a sync can deliver (id, sale price in mills, at
\* currency precision)
Upstream ==
    { [id |-> "X", description |-> "rug", price |-> 10000, totalinstock |-> JsInt(1)],
      [id |-> "X", description |-> "rug", price |-> 10450, totalinstock |-> JsInt(1)],
      [id |-> "Y", description |-> "mat", price |-> 2500, totalinstock |-> JsInt(0)] }

----------------------------------------------------------------------------
(* Exact decimal helpers *)

Max(a, b) == IF a >= b THEN a ELSE b

\* Decimal.toDecimalPlaces(2) with decimal.js' default ROUND_HALF_UP
Round2(x) ==
    IF x >= 0 THEN ((x + 5) \div 10) * 10
    ELSE 0 - ((((0 - x) + 5) \div 10) * 10)

\* new Prisma.Decimal(taxRate).mul(subtotal).toDecimalPlaces(2), rate in percent
TaxOf(rate, subtotal) ==
    IF rate * subtotal >= 0 THEN (((rate * subtotal) + 500) \div 1000) * 10
    ELSE 0 - ((((0 - (rate * subtotal)) + 500) \div 1000) * 10)

----------------------------------------------------------------------------
(* Product upsert (sync) *)

\* what fetchWithRetry hands back for a 404: { __END__: true }
EndMarker == [id |-> "", description |-> "", price |-> 0, totalinstock |-> JsMissing]

\* line 309: Number(details?.totalinstock ?? 0) || 0, a JS number
StockLevel(v) ==
    IF v.kind \in {"missing", "text"} THEN JsInt(0) ELSE v

\* the attribute set syncProducts derives from a details record; a field the
\* record lacks ("" or 0 here) takes the code's default
RowOf(details, briefId) ==
    [ stockCode  |-> IF details.id = "" THEN briefId ELSE details.id,
      name       |-> IF details.description = "" THEN "Untitled" ELSE details.description,
      price      |-> details.price,
      stockLevel |-> StockLevel(details.totalinstock) ]

\* the Prisma client validates the data against the schema before any write:
\* stockLevel is an Int column and takes no fractional number
PrismaAccepts(data) == data.stockLevel.kind = "int"

\* an upsert that always takes the create path
UpsertCreate(rows, data) ==
    rows \cup {[ id |-> Cardinality(rows) + 1, stockCode |-> data.stockCode,
                 name |-> data.name, price |-> data.price,
                 stockLevel |-> data.stockLevel.n ]}

\* prisma.product.upsert({ where: { stockCode }, update, create }): the row of
\* that stockCode takes the attributes, or a new row (next serial id) is made
Upsert(rows, data) ==
    IF \E r \in rows : r.stockCode = data.stockCode
    THEN {IF r.stockCode = data.stockCode
          THEN [ id |-> r.id, stockCode |-> r.stockCode, name |-> data.name,
                 price |-> data.price, stockLevel |-> data.stockLevel.n ]
          ELSE r : r \in rows}
    ELSE rows \cup {[ id |-> Cardinality(rows) + 1, stockCode |-> data.stockCode,
                      name |-> data.name, price |-> data.price,
                      stockLevel |-> data.stockLevel.n ]}

\* a lookup that finds no product
HasProductNever(rows, stockCode) == FALSE

\* prisma.product.findUnique({ where: { stockCode } }): found, and the row
HasProduct(rows, stockCode) == \E r \in rows : r.stockCode = stockCode

FindProduct(rows, stockCode) == CHOOSE r \in rows : r.stockCode = stockCode

\* fetchExoProductsList before a call: page and size requested, the items
\* collected (all), what each page returned, the 504 pauses taken, the error
\* thrown, whether a page was given up, and whether a body of unexpected
\* shape was logged
PagerIdle ==
    [ pc |-> "idle", page |-> 0, size |-> 0, all |-> <<>>, pages |-> <<>>,
      pauses |-> 0, err |-> [status |-> 0, code |-> ""], gaveUp |-> FALSE,
      badShape |-> FALSE ]

\* no fetch and no sync run under way, nothing synced yet
SyncIdle ==
    /\ fetch = [pc |-> "idle", attempt |-> 0, gets |-> 0, waits |-> <<>>,
                last |-> [status |-> 0, code |-> ""], result |-> "none"]
    /\ upstream = <<>>
    /\ runs = <<>>
    /\ hist = [valid |-> FALSE, rows |-> {}, up |-> <<>>, n |-> 0]
    /\ pager = PagerIdle
    /\ isSyncing = FALSE

----------------------------------------------------------------------------
(* Quote engine: recalcQuote *)

LinesOf(its, id) == {it \in its : it.quoteId = id}

\* line 42: should = price * qty
Should(it) == it.price * it.qty

RECURSIVE SumShould(_)
SumShould(S) ==
    IF S = {} THEN 0
    ELSE LET it == CHOOSE x \in S : TRUE
         IN  Should(it) + SumShould(S \ {it})

RECURSIVE SumStored(_)
SumStored(S) ==
    IF S = {} THEN 0
    ELSE LET it == CHOOSE x \in S : TRUE
         IN  it.subtotal + SumStored(S \ {it})

\* a recalculation that leaves the stored line subtotals alone
RecalcLinesKeep(its, id) == its

\* lines 41-47: every line of the quote gets subtotal = should
RecalcLines(its, id) ==
    {IF it.quoteId = id THEN [it EXCEPT !.subtotal = Should(it)] ELSE it : it \in its}

\* lines 40-54: the three monetary fields written to the quote
RecalcTotals(lines, rate) ==
    LET subtotal == SumShould(lines)
        tax      == TaxOf(rate, subtotal)
    IN  [ subtotal |-> Round2(subtotal),
          tax      |-> tax,
          total    |-> Round2(subtotal + tax) ]

\* recalcQuote(quoteId) run to completion on tables (qs, its)
RecalcQuote(qs, its, id, rate) ==
    LET t == RecalcTotals(LinesOf(its, id), rate)
    IN  [ quotes |-> [qs EXCEPT ![id].subtotal = t.subtotal,
                                ![id].tax = t.tax,
                                ![id].total = t.total],
          items  |-> RecalcLines(its, id) ]

QuoteExists(qs, id) == id \in 1..Len(qs)

----------------------------------------------------------------------------
(* Requests, each executed to completion *)

\* the response of the last completed request: the route, its status code and,
\* when it changed a quote line, the quote and line it worked on
Op(op, q, item, res) == [op |-> op, q |-> q, item |-> item, res |-> res]

\* column defaults of a new Quote row
QuoteDefaults == [status |-> "DRAFT", subtotal |-> 0, tax |-> 0, total |-> 0]

\* POST /quotes
CreateQuote(token, name, email, notes) ==
    /\ Len(quotes) < MaxQuotes
    /\ quotes' = Append(quotes,
          [ shareToken    |-> token,
            customerName  |-> IF name = "" THEN Null ELSE name,
            customerEmail |-> IF email = "" THEN Null ELSE email,
            notes         |-> IF notes = "" THEN Null ELSE notes,
            status        |-> QuoteDefaults.status,
            subtotal      |-> QuoteDefaults.subtotal,
            tax           |-> QuoteDefaults.tax,
            total         |-> QuoteDefaults.total ])
    /\ lastOp' = Op("create", Len(quotes) + 1, 0, 200)
    /\ UNCHANGED <<products, items, nextItemId, taxRate, smtp, reqs, syncSide>>

\* a findFirst that never finds the line
MatchingLinesNone(its, id, stockCode) == {}

\* prisma.quoteItem.findFirst({ where: { quoteId: id, stockCode } }): candidates
MatchingLines(its, id, stockCode) ==
    {it \in its : it.quoteId = id /\ it.stockCode = stockCode}

\* an add that takes the requested quantity as it is
AddQuantityAsGiven(qty) == qty

\* Math.max(1, parseInt(qty || '1', 10)) for an integer qty
AddQuantity(qty) == IF qty = 0 THEN 1 ELSE Max(1, qty)

\* a merge that takes the product's current price as the line's unit price
MergedLineRepriced(existing, unitPrice, newQty) ==
    [existing EXCEPT !.qty = newQty, !.price = unitPrice,
                     !.subtotal = unitPrice * newQty]

\* lines 111-116: quoteItem.update writes qty and unitPrice.mul(newQty), the
\* unit price being the product's current price
MergedLine(existing, unitPrice, newQty) ==
    [existing EXCEPT !.qty = newQty, !.subtotal = unitPrice * newQty]

\* POST /quotes/:id/items
AddItem(id, stockCode, qty) ==
    LET p == FindProduct(products, stockCode)
        quantity == AddQuantity(qty)
    IN
    IF stockCode = "" THEN
        /\ lastOp' = Op("add", 0, 0, 400)
        /\ UNCHANGED <<products, quotes, items, nextItemId, taxRate, smtp, reqs, syncSide>>
    ELSE IF ~HasProduct(products, stockCode) THEN
        /\ lastOp' = Op("add", 0, 0, 404)
        /\ UNCHANGED <<products, quotes, items, nextItemId, taxRate, smtp, reqs, syncSide>>
    ELSE IF MatchingLines(items, id, stockCode) # {} THEN
        \* findFirst: any matching row
        \E existing \in MatchingLines(items, id, stockCode) :
            LET newQty == existing.qty + quantity
                upd == (items \ {existing}) \cup {MergedLine(existing, p.price, newQty)}
                r == RecalcQuote(quotes, upd, id, taxRate)
            IN  /\ newQty <= MaxQty
                /\ items' = r.items
                /\ quotes' = r.quotes
                /\ lastOp' = Op("add", id, existing.id, 200)
                /\ UNCHANGED <<products, nextItemId, taxRate, smtp, reqs, syncSide>>
    ELSE IF ~QuoteExists(quotes, id) THEN
        \* quoteItem.create violates the foreign key on quoteId
        /\ lastOp' = Op("add", 0, 0, 500)
        /\ UNCHANGED <<products, quotes, items, nextItemId, taxRate, smtp, reqs, syncSide>>
    ELSE
        LET new == [ id |-> nextItemId, quoteId |-> id, stockCode |-> p.stockCode,
                     price |-> p.price, qty |-> quantity,
                     subtotal |-> p.price * quantity ]
            r == RecalcQuote(quotes, items \cup {new}, id, taxRate)
        IN  /\ nextItemId <= MaxItems
            /\ items' = r.items
            /\ quotes' = r.quotes
            /\ nextItemId' = nextItemId + 1
            /\ lastOp' = Op("add", id, nextItemId, 200)
            /\ UNCHANGED <<products, taxRate, smtp, reqs, syncSide>>

\* a quantity that is never taken below one
UpdateQuantityAtLeastOne(qty) == Max(1, qty)

\* Math.max(0, parseInt(req.body?.qty ?? '0', 10)) for an integer qty
UpdateQuantity(qty) == Max(0, qty)

\* a check that takes the line of any quote
ItemOfAnyQuote(its, itemId, id) == \E it \in its : it.id = itemId

\* lines 153-154: the line exists and item.quoteId === id
ItemOfQuote(its, itemId, id) == \E it \in its : it.id = itemId /\ it.quoteId = id

\* PATCH /quotes/:id/items/:itemId
UpdateItem(id, itemId, qty) ==
    IF ~ItemOfQuote(items, itemId, id) THEN
        /\ lastOp' = Op("update", 0, 0, 404)
        /\ UNCHANGED <<products, quotes, items, nextItemId, taxRate, smtp, reqs, syncSide>>
    ELSE
        LET item == CHOOSE it \in items : it.id = itemId
            q == UpdateQuantity(qty)
            upd == IF q = 0 THEN items \ {item}
                   ELSE (items \ {item}) \cup
                          {[item EXCEPT !.qty = q, !.subtotal = item.price * q]}
            r == RecalcQuote(quotes, upd, id, taxRate)
        IN  /\ q <= MaxQty
            /\ items' = r.items
            /\ quotes' = r.quotes
            /\ lastOp' = Op("update", id, itemId, 200)
            /\ UNCHANGED <<products, nextItemId, taxRate, smtp, reqs, syncSide>>

\* DELETE /quotes/:id/items/:itemId
DeleteItem(id, itemId) ==
    IF ~\E it \in items : it.id = itemId THEN
        \* quoteItem.delete throws: record to delete does not exist
        /\ lastOp' = Op("delete", 0, 0, 500)
        /\ UNCHANGED <<products, quotes, items, nextItemId, taxRate, smtp, reqs, syncSide>>
    ELSE
        LET item == CHOOSE it \in items : it.id = itemId
            upd == items \ {item}
        IN  IF ~QuoteExists(quotes, id) THEN
                \* the line is gone, then recalcQuote throws 'Quote not found'
                /\ items' = upd
                /\ lastOp' = Op("delete", id, itemId, 500)
                /\ UNCHANGED <<products, quotes, nextItemId, taxRate, smtp, reqs, syncSide>>
            ELSE
                LET r == RecalcQuote(quotes, upd, id, taxRate)
                IN  /\ items' = r.items
                    /\ quotes' = r.quotes
                    /\ lastOp' = Op("delete", id, itemId, 200)
                    /\ UNCHANGED <<products, nextItemId, taxRate, smtp, reqs, syncSide>>

\* a patch that clears an omitted field
PatchedToNull(old, new) == IF new = Absent THEN Null ELSE new

\* field ?? undefined: an omitted (or null) field is not written
Patched(old, new) == IF new \in {Absent, Null} THEN old ELSE new

\* the values of the Quote.status enum
StatusValues == {"DRAFT", "SENT"}

\* PATCH /quotes/:id
PatchHeader(id, name, email, notes, status) ==
    IF ~QuoteExists(quotes, id) \/ status \notin StatusValues \cup {Absent} THEN
        \* quote.update throws: no such record, or not a value of the enum
        /\ lastOp' = Op("patch", 0, 0, 500)
        /\ UNCHANGED <<products, quotes, items, nextItemId, taxRate, smtp, reqs, syncSide>>
    ELSE
        /\ quotes' = [quotes EXCEPT
              ![id].customerName  = Patched(@, name),
              ![id].customerEmail = Patched(@, email),
              ![id].notes         = Patched(@, notes),
              ![id].status        = Patched(@, status)]
        /\ lastOp' = Op("patch", id, 0, 200)
        /\ UNCHANGED <<products, items, nextItemId, taxRate, smtp, reqs, syncSide>>

\* a send that takes any recipient, even none
NoRecipientNever(toEmail, q) == FALSE

\* lines 216-217: recipient = toEmail || q.customerEmail; !recipient
NoRecipient(toEmail, q) == toEmail = "" /\ q.customerEmail \in {Null, ""}

\* POST /quotes/:id/send; mailOk: transporter.sendMail resolves
SendQuote(id, toEmail, mailOk) ==
    IF ~QuoteExists(quotes, id) THEN
        /\ lastOp' = Op("send", 0, 0, 404)
        /\ UNCHANGED <<products, quotes, items, nextItemId, taxRate, smtp, reqs, syncSide>>
    ELSE IF NoRecipient(toEmail, quotes[id]) THEN
        /\ lastOp' = Op("send", 0, 0, 400)
        /\ UNCHANGED <<products, quotes, items, nextItemId, taxRate, smtp, reqs, syncSide>>
    ELSE IF ~smtp \/ ~mailOk THEN
        /\ lastOp' = Op("send", 0, 0, 500)
        /\ UNCHANGED <<products, quotes, items, nextItemId, taxRate, smtp, reqs, syncSide>>
    ELSE
        /\ quotes' = [quotes EXCEPT ![id].status = "SENT"]
        /\ lastOp' = Op("send", id, 0, 200)
        /\ UNCHANGED <<products, items, nextItemId, taxRate, smtp, reqs, syncSide>>

\* a check that also turns away a request without token
TokenRejectedStrict(token, q) == token # q.shareToken

\* line 88: token && token !== q.shareToken ("" is no token)
TokenRejected(token, q) == token # "" /\ token # q.shareToken

\* GET /quotes/:id?token=
GetQuote(id, token) ==
    /\ lastOp' = Op("get", id, 0,
          IF ~QuoteExists(quotes, id) THEN 404
          ELSE IF TokenRejected(token, quotes[id]) THEN 403
          ELSE 200)
    /\ UNCHANGED <<products, quotes, items, nextItemId, taxRate, smtp, reqs, syncSide>>

\* one product of a sync run: details fetched, row derived and upserted; a
\* row the client rejects is logged and nothing is written
SyncRow(details) ==
    /\ products' = IF PrismaAccepts(RowOf(details, details.id))
                   THEN Upsert(products, RowOf(details, details.id))
                   ELSE products
    /\ lastOp' = Op("sync", 0, 0,
                    IF PrismaAccepts(RowOf(details, details.id)) THEN 200 ELSE 500)
    /\ UNCHANGED <<quotes, items, nextItemId, taxRate, smtp, reqs, syncSide>>

----------------------------------------------------------------------------
(* Quote engine, one request at a time *)

Tokens == {"t1"}
CodeInputs == StockCodes \cup {"Z", ""}

InitQuote ==
    /\ SyncIdle
    /\ products = {}
    /\ quotes = <<>>
    /\ items = {}
    /\ nextItemId = 1
    /\ taxRate \in TaxRates
    /\ smtp = FALSE
    /\ lastOp = Op("init", 0, 0, 0)
    /\ reqs = <<>>

NextQuote ==
    \/ \E t \in Tokens : CreateQuote(t, "", "", "")
    \/ \E id \in QuoteIds, c \in CodeInputs, n \in QtyInputs : AddItem(id, c, n)
    \/ \E id \in QuoteIds, i \in ItemIds, n \in QtyInputs : UpdateItem(id, i, n)
    \/ \E id \in QuoteIds, i \in ItemIds : DeleteItem(id, i)
    \/ \E d \in Upstream : SyncRow(d)

SpecQuote == InitQuote /\ [][NextQuote]_vars

----------------------------------------------------------------------------
(* Claims on the quote engine, one request at a time *)

Consistent(q, lines) ==
    /\ q.subtotal = Round2(SumStored(lines))
    /\ q.tax = TaxOf(taxRate, q.subtotal)
    /\ q.total = q.subtotal + q.tax

\* C1: after every completed add, update or delete of a line, every quote's
\* stored subtotal is the rounded sum of its lines' stored subtotals, its tax
\* is round(taxRate * subtotal, 2) and its total is subtotal + tax.
C1_TotalsMatchLines ==
    \A id \in 1..Len(quotes) : Consistent(quotes[id], LinesOf(items, id))

\* C5: after every completed item mutation, each stored line subtotal is
\* exactly its stored unit price times its stored quantity.
C5_LineSubtotalExact ==
    \A it \in items : it.subtotal = it.price * it.qty

\* an add has just incremented a line whose snapshot price differs from the
\* product's current price
C5_Witness ==
    /\ lastOp.op = "add" /\ lastOp.res = 200
    /\ \E it \in items :
          /\ it.id = lastOp.item
          /\ it.qty > QtyHi
          /\ it.price # FindProduct(products, it.stockCode).price
          /\ it.subtotal = it.price * it.qty

\* C6: an add of stockCode c with quantity n to a quote without a line for c
\* creates exactly one line with qty max(1, n) and subtotal price * qty; an
\* add to a quote that has the line adds max(1, n) to that line's qty and
\* creates no second line.
C6_AddMergesByStockCode ==
    [][(lastOp'.op = "add" /\ lastOp'.res = 200) =>
        \A id \in {lastOp'.q}, c \in StockCodes, n \in QtyInputs :
          AddItem(id, c, n) =>
             LET before == {it \in items : it.quoteId = id /\ it.stockCode = c}
                 after  == {it \in items' : it.quoteId = id /\ it.stockCode = c}
             IN  /\ Cardinality(after) = 1
                 /\ before = {} =>
                       \A l \in after :
                          /\ l.qty = Max(1, n)
                          /\ l.subtotal = FindProduct(products, c).price * l.qty
                 /\ before # {} =>
                       \A l \in after : \E b \in before :
                          l.id = b.id /\ l.qty = b.qty + Max(1, n)
      ]_vars

\* a second add has been merged into the one line of its stock code
C6_Witness ==
    /\ lastOp.op = "add" /\ lastOp.res = 200
    /\ \E it \in items :
          /\ it.id = lastOp.item
          /\ it.qty > QtyHi
          /\ Cardinality(MatchingLines(items, it.quoteId, it.stockCode)) = 1
          /\ quotes[it.quoteId].subtotal = Round2(it.price * it.qty)

\* C20: an update of a line with qty 0 removes the line and leaves the quote
\* with subtotal, tax and total of the remaining lines; an update with
\* qty > 0 sets the line's qty to it and its subtotal to stored price * qty.
C20_UpdateItemQty ==
    [][(lastOp'.op = "update" /\ lastOp'.res = 200) =>
        \A id \in {lastOp'.q}, i \in {lastOp'.item}, n \in 0..QtyHi :
          UpdateItem(id, i, n) =>
             LET old == CHOOSE it \in items : it.id = i
                 rest == LinesOf(items', id)
             IN  /\ n = 0 =>
                       /\ ~\E it \in items' : it.id = i
                       /\ {it.id : it \in rest} = {it.id : it \in LinesOf(items, id)} \ {i}
                 /\ n > 0 =>
                       \E it \in items' :
                          /\ it.id = i /\ it.quoteId = id
                          /\ it.qty = n
                          /\ it.price = old.price
                          /\ it.subtotal = old.price * n
                 /\ quotes'[id].subtotal = Round2(SumStored(rest))
                 /\ quotes'[id].tax = TaxOf(taxRate, SumStored(rest))
                 /\ quotes'[id].total = Round2(SumStored(rest) + quotes'[id].tax)
      ]_vars

\* a line has just been removed by an update and another line remains
C20_Witness ==
    /\ lastOp.op = "update" /\ lastOp.res = 200
    /\ ~\E it \in items : it.id = lastOp.item
    /\ LinesOf(items, lastOp.q) # {}
    /\ quotes[lastOp.q].subtotal = Round2(SumStored(LinesOf(items, lastOp.q)))
    /\ quotes[lastOp.q].subtotal > 0

\* C21: an update of an item id that does not exist, or of a line whose
\* quoteId is not the quote id of the request, is answered 404 and changes no
\* quote and no line: a step answered 404 changes nothing, and a step
\* answered otherwise (it records the quote id and item id of its request)
\* was for a line of that quote.
C21_UpdateForeignItem ==
    /\ [][ (lastOp'.op = "update" /\ lastOp'.res = 404)
           => UNCHANGED <<quotes, items, nextItemId, products>> ]_vars
    /\ [][ (lastOp'.op = "update" /\ lastOp'.res # 404) =>
            \A id \in {lastOp'.q}, i \in {lastOp'.item}, n \in QtyInputs :
               UpdateItem(id, i, n)
                 => \E it \in items : it.id = i /\ it.quoteId = id ]_vars

\* an update has been refused while both quotes exist and a line is stored
C21_Witness ==
    /\ lastOp = Op("update", 0, 0, 404)
    /\ Len(quotes) = MaxQuotes
    /\ \E it \in items : it.quoteId = 1
    /\ C1_TotalsMatchLines

\* C22: an add is answered 404 exactly when its stockCode is given and no
\* stored product has it, and an add answered 404 changes no quote, no line
\* and no total. A refused add changes nothing whatever its qty, so the
\* refused requests are told apart by quote id and stockCode; an accepted
\* add names the line it wrote, whose stockCode is a stored product's.
C22_AddUnknownProduct ==
    /\ [][ (lastOp'.op = "add" /\ lastOp'.res = 404)
           => UNCHANGED <<quotes, items, nextItemId, products>> ]_vars
    /\ [][ (lastOp'.op = "add" /\ lastOp'.res # 200) =>
            \A id \in QuoteIds, c \in CodeInputs, n \in {1} :
               AddItem(id, c, n)
                 => (lastOp'.res = 404
                       <=> (c # "" /\ ~\E r \in products : r.stockCode = c)) ]_vars
    /\ [][ (lastOp'.op = "add" /\ lastOp'.res = 200) =>
            \E it \in items' :
               /\ it.id = lastOp'.item
               /\ \E r \in products : r.stockCode = it.stockCode ]_vars

\* an add has been refused while a quote with a line and a product exist
C22_Witness ==
    /\ lastOp = Op("add", 0, 0, 404)
    /\ products # {}
    /\ \E it \in items : it.quoteId = 1 /\ quotes[1].subtotal > 0

\* C30: an add that is merged into an existing line leaves the line's stored
\* unit price as it was, whatever the product's price is now, and leaves the
\* line's subtotal at the stored unit price times the new quantity.
C30_MergeKeepsSnapshotPrice ==
    [][ (lastOp'.op = "add" /\ lastOp'.res = 200
           /\ \E old \in items : old.id = lastOp'.item)
        => \E old \in items, new \in items' :
              /\ old.id = lastOp'.item /\ new.id = old.id
              /\ new.qty > old.qty
              /\ new.price = old.price
              /\ new.subtotal = old.price * new.qty ]_vars

\* an add has been merged into a line of X taken at 10.00 while the product
\* costs 10.45, and the quote's subtotal is that of the line
C30_Witness ==
    /\ lastOp.op = "add" /\ lastOp.res = 200
    /\ \E it \in items :
          /\ it.id = lastOp.item
          /\ it.qty >= 2
          /\ it.price = 10000
          /\ FindProduct(products, it.stockCode).price = 10450
          /\ it.subtotal = 10000 * it.qty
          /\ LinesOf(items, it.quoteId) = {it}
          /\ quotes[it.quoteId].subtotal = it.subtotal

\* C31: every stored line has qty >= 1; an add with a requested quantity below
\* 1 counts as an add of 1, and an update with a quantity <= 0 removes the
\* line instead of storing it.
C31_QtyAtLeastOne ==
    /\ [](\A it \in items : it.qty >= 1)
    /\ [][ (lastOp'.op = "add" /\ lastOp'.res = 200) =>
            \A id \in {lastOp'.q},
               c \in {it.stockCode : it \in {x \in items' : x.id = lastOp'.item}},
               n \in {x \in QtyInputs : x < 1} :
               AddItem(id, c, n) =>
                  \E new \in items' :
                     /\ new.id = lastOp'.item
                     /\ \/ new.qty = 1 /\ ~\E old \in items : old.id = new.id
                        \/ \E old \in items : old.id = new.id /\ new.qty = old.qty + 1
          ]_vars
    /\ [][ (lastOp'.op = "update" /\ lastOp'.res = 200) =>
            \A id \in {lastOp'.q}, i \in {lastOp'.item},
               n \in {x \in QtyInputs : x <= 0} :
               UpdateItem(id, i, n) => ~\E it \in items' : it.id = i ]_vars

\* an add has just made a line of qty 1 on a quote next to a line of a larger
\* qty
C31_Witness ==
    /\ lastOp.op = "add" /\ lastOp.res = 200
    /\ \E it \in items : it.id = lastOp.item /\ it.qty = 1
    /\ \E it \in items : it.id # lastOp.item /\ it.qty >= 2 /\ it.quoteId = lastOp.q

\* C28: a delete naming quote Q (recorded in lastOp.q) removes no line of
\* another quote and leaves every other quote's stored subtotal, tax and
\* total matching its lines.
C28_DeleteLeavesOtherQuotes ==
    [][ lastOp'.op = "delete" =>
          \A q \in 1..Len(quotes) :
             q # lastOp'.q =>
                /\ LinesOf(items', q) = LinesOf(items, q)
                /\ Consistent(quotes[q], LinesOf(items, q))
                      => Consistent(quotes'[q], LinesOf(items', q)) ]_vars

----------------------------------------------------------------------------
(* Quote header, status and delivery, one request at a time *)

MaxHeaderQuotes == 1
HeaderQuoteIds == 1..(MaxHeaderQuotes + 1)
Emails == {"a@x"}
Names == {"Ann"}
Notes == {"note"}

InitStatus ==
    /\ SyncIdle
    /\ products = {}
    /\ quotes = <<>>
    /\ items = {}
    /\ nextItemId = 1
    /\ taxRate = 0
    /\ smtp \in BOOLEAN
    /\ lastOp = Op("init", 0, 0, 0)
    /\ reqs = <<>>

NextStatus ==
    \/ \E t \in Tokens, e \in Emails \cup {""} :
          Len(quotes) < MaxHeaderQuotes /\ CreateQuote(t, "", e, "")
    \/ \E id \in HeaderQuoteIds, n \in Names \cup {Absent}, e \in Emails \cup {Absent, ""},
          m \in Notes \cup {Absent, Null}, st \in StatusValues \cup {Absent, "PAID"} :
          PatchHeader(id, n, e, m, st)
    \/ \E id \in HeaderQuoteIds, e \in Emails \cup {""}, ok \in BOOLEAN : SendQuote(id, e, ok)
    \/ \E id \in HeaderQuoteIds, t \in Tokens \cup {"", "t0"} : GetQuote(id, t)
    \/ \E id \in HeaderQuoteIds : AddItem(id, "X", 1)
    \/ \E id \in HeaderQuoteIds, i \in ItemIds : UpdateItem(id, i, 0)
    \/ \E d \in {u \in Upstream : u.price = 10000} : SyncRow(d)

SpecStatus == InitStatus /\ [][NextStatus]_vars

\* C4: Quote.status is always DRAFT or SENT, is DRAFT on creation, becomes
\* SENT only by a successful send, and never leaves SENT.
C4_StatusMachine ==
    /\ [](\A id \in 1..Len(quotes) : quotes[id].status \in {"DRAFT", "SENT"})
    /\ [][\A id \in 1..Len(quotes') :
            /\ id > Len(quotes) => quotes'[id].status = "DRAFT"
            /\ id <= Len(quotes) =>
                 /\ quotes[id].status = "SENT" => quotes'[id].status = "SENT"
                 /\ (quotes[id].status # "SENT" /\ quotes'[id].status = "SENT")
                       => lastOp' = Op("send", id, 0, 200)
       ]_vars

\* C18: a fetch of a quote id that does not exist answers 404; of an existing
\* quote with a non-empty token other than its shareToken 403; of an existing
\* quote with no token or with its shareToken 200; and no fetch changes a
\* stored row.
C18_FetchByIdAndToken ==
    [][ lastOp'.op = "get" =>
          \A id \in HeaderQuoteIds, t \in Tokens \cup {"", "t0"} :
             GetQuote(id, t) =>
                /\ ~QuoteExists(quotes, id) => lastOp'.res = 404
                /\ (QuoteExists(quotes, id) /\ t # "" /\ t # quotes[id].shareToken)
                      => lastOp'.res = 403
                /\ (QuoteExists(quotes, id) /\ (t = "" \/ t = quotes[id].shareToken))
                      => lastOp'.res = 200
                /\ UNCHANGED <<products, quotes, items, nextItemId>>
      ]_vars

\* an existing quote has just been refused to a wrong token
C18_Witness ==
    /\ lastOp = Op("get", 1, 0, 403)
    /\ QuoteExists(quotes, 1)
    /\ quotes[1].shareToken = "t1"

\* C19: a send answers 200 and sets the status to SENT when the quote exists,
\* a recipient resolves, a transport is configured and the transport accepts
\* the message; in every other case it answers an error and leaves the quote
\* table as it was.
C19_SendOnlyAfterAccept ==
    [][ lastOp'.op = "send" =>
          \A id \in HeaderQuoteIds, e \in Emails \cup {""}, ok \in BOOLEAN :
             SendQuote(id, e, ok) =>
                IF /\ QuoteExists(quotes, id)
                   /\ (e # "" \/ quotes[id].customerEmail \notin {Null, ""})
                   /\ smtp
                   /\ ok
                THEN /\ lastOp'.res = 200
                     /\ quotes'[id].status = "SENT"
                ELSE /\ lastOp'.res \in {400, 404, 500}
                     /\ quotes' = quotes
      ]_vars

\* the transport is configured, the send has failed and the quote is a draft
C19_Witness ==
    /\ lastOp = Op("send", 0, 0, 500)
    /\ smtp
    /\ QuoteExists(quotes, 1)
    /\ quotes[1].customerEmail = "a@x"
    /\ quotes[1].status = "DRAFT"

\* C23: a header update keeps the stored value of each of customerName,
\* customerEmail, notes and status that the request omits, and changes no
\* line, no subtotal, tax, total or shareToken, and no other quote.
C23_PatchIsPartial ==
    [][ lastOp'.op = "patch" =>
         /\ UNCHANGED <<items, nextItemId, products>>
         /\ Len(quotes') = Len(quotes)
         /\ \A id \in 1..Len(quotes) :
               /\ quotes'[id].shareToken = quotes[id].shareToken
               /\ quotes'[id].subtotal = quotes[id].subtotal
               /\ quotes'[id].tax = quotes[id].tax
               /\ quotes'[id].total = quotes[id].total
               /\ id # lastOp'.q => quotes'[id] = quotes[id]
         /\ \A id \in {lastOp'.q} \cap HeaderQuoteIds,
               n \in Names \cup {Absent}, e \in Emails \cup {Absent, ""},
               m \in Notes \cup {Absent, Null}, st \in StatusValues \cup {Absent} :
               PatchHeader(id, n, e, m, st) =>
                  /\ n = Absent => quotes'[id].customerName = quotes[id].customerName
                  /\ e = Absent => quotes'[id].customerEmail = quotes[id].customerEmail
                  /\ m = Absent => quotes'[id].notes = quotes[id].notes
                  /\ st = Absent => quotes'[id].status = quotes[id].status
      ]_vars

\* a header update that names only the notes has kept a name, an email and
\* the status SENT of a quote with a line
C23_Witness ==
    /\ lastOp = Op("patch", 1, 0, 200)
    /\ QuoteExists(quotes, 1)
    /\ quotes[1].customerName = "Ann"
    /\ quotes[1].customerEmail = "a@x"
    /\ quotes[1].notes = "note"
    /\ quotes[1].status = "SENT"
    /\ quotes[1].total > 0

----------------------------------------------------------------------------
(* Item mutations as interleaved handlers: every awaited prisma call is one *)
(* step, and two requests on quote 1 run concurrently.                      *)

Procs == {1, 2}
RaceQuote == CHOOSE q \in QuoteIds : \A r \in QuoteIds : q <= r

Req(kind, code, item, qty) ==
    [ kind |-> kind, code |-> code, item |-> item, qty |-> qty, pc |-> "start",
      price |-> 0, existingId |-> 0, existingQty |-> 0,
      sum |-> 0, todo |-> {}, res |-> 0 ]

RaceRequests ==
    {Req("add", c, 0, 1) : c \in StockCodes}
      \cup {Req("update", "", 1, n) : n \in {0, 2}}
      \cup {Req("delete", "", 1, 0)}

\* a row of the given id is still stored
RowExists(its, id) == \E it \in its : it.id = id

MinId(S) == CHOOSE x \in S : \A y \in S : x.id <= y.id

Finish(p, code) == reqs' = [reqs EXCEPT ![p].pc = "done", ![p].res = code]

\* add: product.findUnique; update: quoteItem.findUnique and ownership check
ReqStart(p) ==
    LET r == reqs[p] IN
    /\ r.pc = "start"
    /\ r.kind \in {"add", "update"}
    /\ IF r.kind = "add" THEN
          IF ~HasProduct(products, r.code) THEN Finish(p, 404)
          ELSE reqs' = [reqs EXCEPT ![p].pc = "find",
                                    ![p].price = FindProduct(products, r.code).price]
       ELSE
          IF ~\E it \in items : it.id = r.item /\ it.quoteId = RaceQuote
          THEN Finish(p, 404)
          ELSE reqs' = [reqs EXCEPT ![p].pc = "write",
                  ![p].price = (CHOOSE it \in items : it.id = r.item).price]
    /\ UNCHANGED <<products, quotes, items, nextItemId, taxRate, smtp, lastOp, syncSide>>

\* add: quoteItem.findFirst({ where: { quoteId, stockCode } })
ReqFind(p) ==
    LET r == reqs[p] IN
    /\ r.pc = "find"
    /\ IF MatchingLines(items, RaceQuote, r.code) = {}
       THEN reqs' = [reqs EXCEPT ![p].pc = "write"]
       ELSE \E e \in MatchingLines(items, RaceQuote, r.code) :
               reqs' = [reqs EXCEPT ![p].pc = "write", ![p].existingId = e.id,
                                    ![p].existingQty = e.qty]
    /\ UNCHANGED <<products, quotes, items, nextItemId, taxRate, smtp, lastOp, syncSide>>

\* the handler's own write: quoteItem.update, quoteItem.create or quoteItem.delete
ReqWrite(p) ==
    LET r == reqs[p]
        target == IF r.kind = "add" THEN r.existingId ELSE r.item
        old == CHOOSE it \in items : it.id = target
    IN
    /\ \/ r.pc = "write"
       \/ r.pc = "start" /\ r.kind = "delete"
    /\ IF r.kind = "add" /\ r.existingId = 0 THEN
          /\ items' = items \cup
                {[ id |-> nextItemId, quoteId |-> RaceQuote, stockCode |-> r.code,
                   price |-> r.price, qty |-> AddQuantity(r.qty),
                   subtotal |-> r.price * AddQuantity(r.qty) ]}
          /\ nextItemId' = nextItemId + 1
          /\ reqs' = [reqs EXCEPT ![p].pc = "snap"]
       ELSE IF ~RowExists(items, target) THEN
          \* record to update or delete not found: the handler answers 500
          /\ Finish(p, 500)
          /\ UNCHANGED <<items, nextItemId>>
       ELSE
          /\ items' =
               IF r.kind = "add" THEN
                  (items \ {old}) \cup
                    {[old EXCEPT !.qty = r.existingQty + AddQuantity(r.qty),
                                 !.subtotal = r.price * (r.existingQty + AddQuantity(r.qty))]}
               ELSE IF r.kind = "update" /\ UpdateQuantity(r.qty) # 0 THEN
                  (items \ {old}) \cup
                    {[old EXCEPT !.qty = UpdateQuantity(r.qty),
                                 !.subtotal = r.price * UpdateQuantity(r.qty)]}
               ELSE items \ {old}
          /\ reqs' = [reqs EXCEPT ![p].pc = "snap"]
          /\ UNCHANGED nextItemId
    /\ UNCHANGED <<products, quotes, taxRate, smtp, lastOp, syncSide>>

\* recalcQuote line 37: the quote is read with its lines; the loop then works
\* on this copy
ReqSnapshot(p) ==
    LET r == reqs[p]
        snap == LinesOf(items, RaceQuote)
        todo == {it \in snap : it.subtotal # Should(it)}
    IN
    /\ r.pc = "snap"
    /\ reqs' = [reqs EXCEPT ![p].pc = IF todo = {} THEN "total" ELSE "fix",
                            ![p].sum = SumShould(snap),
                            ![p].todo = todo]
    /\ UNCHANGED <<products, quotes, items, nextItemId, taxRate, smtp, lastOp, syncSide>>

\* recalcQuote line 44: one drifted line of the copy is rewritten
ReqFixLine(p) ==
    LET r == reqs[p]
        it == MinId(r.todo)
        rest == r.todo \ {it}
    IN
    /\ r.pc = "fix"
    /\ IF ~RowExists(items, it.id) THEN
          /\ Finish(p, 500)
          /\ UNCHANGED items
       ELSE
          /\ items' = {IF x.id = it.id THEN [x EXCEPT !.subtotal = Should(it)] ELSE x
                         : x \in items}
          /\ reqs' = [reqs EXCEPT ![p].pc = IF rest = {} THEN "total" ELSE "fix",
                                  ![p].todo = rest]
    /\ UNCHANGED <<products, quotes, nextItemId, taxRate, smtp, lastOp, syncSide>>

\* recalcQuote lines 48-54, then the handler reads the quote back and answers
ReqWriteTotals(p) ==
    LET r == reqs[p]
        tax == TaxOf(taxRate, r.sum)
    IN
    /\ r.pc = "total"
    /\ quotes' = [quotes EXCEPT ![RaceQuote].subtotal = Round2(r.sum),
                                ![RaceQuote].tax = tax,
                                ![RaceQuote].total = Round2(r.sum + tax)]
    /\ Finish(p, 200)
    /\ UNCHANGED <<products, items, nextItemId, taxRate, smtp, lastOp, syncSide>>

\* quote 1 with no line or one line of X, totals recalculated; the product
\* table as some sync left it (X may have been repriced since the line)
InitRace ==
    /\ SyncIdle
    /\ \E x \in {u \in Upstream : u.id = "X"}, y \in {u \in Upstream : u.id = "Y"} :
          products = Upsert(Upsert({}, RowOf(x, x.id)), RowOf(y, y.id))
    /\ taxRate = 10
    /\ smtp = FALSE
    /\ lastOp = Op("init", 0, 0, 0)
    /\ \E start \in {{}, {[id |-> 1, quoteId |-> RaceQuote, stockCode |-> "X",
                           price |-> 10000, qty |-> 1, subtotal |-> 10000]}} :
          /\ items = start
          /\ nextItemId = Cardinality(start) + 1
          /\ quotes = << [ shareToken |-> "t1", customerName |-> Null,
                           customerEmail |-> Null, notes |-> Null,
                           status |-> QuoteDefaults.status,
                           subtotal |-> RecalcTotals(start, 10).subtotal,
                           tax |-> RecalcTotals(start, 10).tax,
                           total |-> RecalcTotals(start, 10).total ] >>
    /\ reqs \in [Procs -> RaceRequests]

NextRace ==
    \E p \in Procs :
       \/ ReqStart(p)
       \/ ReqFind(p)
       \/ ReqWrite(p)
       \/ ReqSnapshot(p)
       \/ ReqFixLine(p)
       \/ ReqWriteTotals(p)

SpecRace == InitRace /\ [][NextRace]_vars

RaceDone == \A p \in Procs : reqs[p].pc = "done"

\* C3: whatever the interleaving of two concurrent item mutations on a quote,
\* once both have completed the quote's stored subtotal is the rounded sum of
\* its lines' stored subtotals and its total is subtotal + tax.
C3_ConcurrentTotals ==
    RaceDone =>
       /\ quotes[RaceQuote].subtotal = Round2(SumStored(LinesOf(items, RaceQuote)))
       /\ quotes[RaceQuote].total = quotes[RaceQuote].subtotal + quotes[RaceQuote].tax

\* the qty the stockCode had on the quote before two adds of it: what the
\* findFirst that came first has read (0 when it found no line)
QtyBefore == IF reqs[1].existingQty <= reqs[2].existingQty
             THEN reqs[1].existingQty ELSE reqs[2].existingQty

\* C29: once two concurrent adds of the same stockCode on a quote have both
\* been answered 200, the quote has exactly one line of that stockCode and
\* its qty is the sum of the two requested quantities (on top of the qty the
\* stockCode had before, none when there was no line).
C29_ConcurrentAddsMerge ==
    ( /\ RaceDone
      /\ \A p \in Procs : reqs[p].kind = "add" /\ reqs[p].res = 200
      /\ reqs[1].code = reqs[2].code )
    => \E it \in items :
          /\ MatchingLines(items, RaceQuote, reqs[1].code) = {it}
          /\ it.qty = QtyBefore + AddQuantity(reqs[1].qty) + AddQuantity(reqs[2].qty)

----------------------------------------------------------------------------
(* Resilient fetcher: fetchWithRetry(url, options, retries = 6,            *)
(* baseBackoffMs = 2000)                                                    *)

Retries == 6
BaseBackoffMs == 2000

NoError == [status |-> 0, code |-> ""]

\* what one axiosClient.get can end in: a 2xx body (status 200), an HTTP error
\* status with axios' own code, or no response and a connection-level code
Outcomes ==
    {[status |-> 200, code |-> ""]}
      \cup {[status |-> st, code |-> "ERR_BAD_REQUEST"] : st \in {400, 403, 404}}
      \cup {[status |-> st, code |-> "ERR_BAD_RESPONSE"] : st \in {500, 503, 504}}
      \cup {[status |-> 0, code |-> c] :
              c \in {"ETIMEDOUT", "ECONNRESET", "EAI_AGAIN", "ECONNABORTED",
                     "ENOTFOUND", ""}}

IsSuccess(o) == o.status = 200

\* a fetcher for which no status marks the end of pages
IsEndNever(o) == FALSE

\* line 71: code === 404
IsEnd(o) == o.status = 404

\* a classification that retries every HTTP error status
TransientAnyStatus(o) ==
    \/ o.status >= 400
    \/ o.code \in {"ETIMEDOUT", "ECONNRESET", "EAI_AGAIN", "ECONNABORTED"}

\* lines 78-80: code >= 500 || [...].includes(err.code)
Transient(o) ==
    \/ o.status >= 500
    \/ o.code \in {"ETIMEDOUT", "ECONNRESET", "EAI_AGAIN", "ECONNABORTED"}

\* a backoff that doubles with every attempt
BackoffDoubling(attempt) == BaseBackoffMs * (2 ^ (attempt - 1))

\* line 83: baseBackoffMs * attempt
Backoff(attempt) == BaseBackoffMs * attempt

\* the locals of fetchWithRetry on entry: attempt = 1
FetchEntry ==
    [pc |-> "attempt", attempt |-> 1, gets |-> 0, waits |-> <<>>,
     last |-> NoError, result |-> "none"]

\* a caller enters fetchWithRetry
FetchCall ==
    /\ fetch.pc \in {"idle", "returned", "thrown"}
    /\ fetch' = FetchEntry
    /\ UNCHANGED <<products, quoteSide, pager, upstream, runs, hist, isSyncing>>

\* lines 65-81: one GET and what the loop body does with its outcome
FetchAttempt(o) ==
    /\ fetch.pc = "attempt"
    /\ fetch' =
         IF IsSuccess(o) THEN
            [fetch EXCEPT !.gets = @ + 1, !.last = o, !.pc = "returned", !.result = "data"]
         ELSE IF IsEnd(o) THEN
            [fetch EXCEPT !.gets = @ + 1, !.last = o, !.pc = "returned", !.result = "END"]
         ELSE IF ~Transient(o) \/ fetch.attempt = Retries THEN
            [fetch EXCEPT !.gets = @ + 1, !.last = o, !.pc = "thrown", !.result = "error"]
         ELSE
            [fetch EXCEPT !.gets = @ + 1, !.last = o, !.pc = "sleep"]
    /\ UNCHANGED <<products, quoteSide, pager, upstream, runs, hist, isSyncing>>

\* line 83 and the loop increment: the sleep ends and the next attempt starts
FetchBackoff ==
    /\ fetch.pc = "sleep"
    /\ fetch' = [fetch EXCEPT !.waits = Append(@, Backoff(fetch.attempt)),
                              !.attempt = @ + 1,
                              !.pc = IF fetch.attempt + 1 <= Retries THEN "attempt"
                                     ELSE "fellthrough"]
    /\ UNCHANGED <<products, quoteSide, pager, upstream, runs, hist, isSyncing>>

InitFetch ==
    /\ products = {}
    /\ quotes = <<>>
    /\ items = {}
    /\ nextItemId = 1
    /\ taxRate = 0
    /\ smtp = FALSE
    /\ lastOp = Op("init", 0, 0, 0)
    /\ reqs = <<>>
    /\ SyncIdle

NextFetch ==
    \/ FetchCall
    \/ \E o \in Outcomes : FetchAttempt(o)
    \/ FetchBackoff

\* every request is answered or times out (axios timeout 45 s), every sleep ends
SpecFetch ==
    /\ InitFetch /\ [][NextFetch]_vars
    /\ WF_vars(\E o \in Outcomes : FetchAttempt(o))
    /\ WF_vars(FetchBackoff)

FetchEnded == fetch.pc \in {"returned", "thrown"}

\* this step is the GET of attempt fetch.attempt
IsAttemptStep == fetch.pc = "attempt" /\ fetch'.gets = fetch.gets + 1

\* C8: a call makes at most `retries` GETs and always ends; a transient
\* failure on attempt k < retries is followed by a wait of baseBackoffMs * k
\* and attempt k + 1, a transient failure on attempt k = retries propagates,
\* and a success on any attempt returns the body.
C8_BoundedRetry ==
    /\ [](fetch.gets <= Retries /\ fetch.attempt <= Retries)
    /\ (fetch.pc = "attempt") ~> FetchEnded
    /\ [][IsAttemptStep =>
            /\ (fetch'.last.status = 200) => (fetch'.pc = "returned" /\ fetch'.result = "data")
            /\ (Transient(fetch'.last) /\ fetch.attempt = Retries) =>
                  (fetch'.pc = "thrown" /\ fetch'.result = "error")
            /\ (Transient(fetch'.last) /\ fetch.attempt < Retries) =>
                  (fetch'.pc = "sleep" /\ fetch'.waits = fetch.waits)
       ]_vars
    /\ [][fetch.pc = "sleep" =>
            /\ fetch'.pc = "attempt"
            /\ fetch'.attempt = fetch.attempt + 1
            /\ fetch'.gets = fetch.gets
            /\ fetch'.waits = Append(fetch.waits, BaseBackoffMs * fetch.attempt)
       ]_vars

\* every attempt failed with a transient error: five growing waits, then the throw
C8_Witness ==
    /\ fetch.pc = "thrown"
    /\ fetch.gets = Retries
    /\ Transient(fetch.last)
    /\ fetch.waits = [k \in 1..(Retries - 1) |-> BaseBackoffMs * k]

Fatal(o) ==
    \/ o.status >= 400 /\ o.status < 500 /\ o.status # 404
    \/ o.status = 0 /\ o.code \notin {"ETIMEDOUT", "ECONNRESET", "EAI_AGAIN", "ECONNABORTED"}

\* C9: a fatal error (4xx other than 404, or an error without a transient
\* status or code) propagates on the attempt where it occurs: no further
\* attempt and no backoff wait, whatever the attempt number.
C9_FatalPropagates ==
    /\ [][(IsAttemptStep /\ Fatal(fetch'.last)) =>
            /\ fetch'.pc = "thrown"
            /\ fetch'.result = "error"
            /\ fetch'.waits = fetch.waits
            /\ fetch'.attempt = fetch.attempt
       ]_vars
    /\ [][fetch.pc = "thrown" => (fetch'.gets = 0 /\ fetch'.waits = <<>>)]_vars

\* a 400 on the third attempt, after two transient failures
C9_Witness ==
    /\ fetch.pc = "thrown"
    /\ fetch.last.status = 400
    /\ fetch.gets = 3
    /\ Len(fetch.waits) = 2

\* C10: a 404 on any attempt returns the end marker at once: no error, no
\* retry and no backoff wait.
C10_NotFoundIsEnd ==
    /\ [][(IsAttemptStep /\ fetch'.last.status = 404) =>
            /\ fetch'.pc = "returned"
            /\ fetch'.result = "END"
            /\ fetch'.waits = fetch.waits
            /\ fetch'.attempt = fetch.attempt
       ]_vars
    /\ [][fetch.pc = "returned" => (fetch'.gets = 0 /\ fetch'.waits = <<>>)]_vars

\* a 404 on the second attempt
C10_Witness ==
    /\ fetch.pc = "returned"
    /\ fetch.result = "END"
    /\ fetch.last.status = 404
    /\ fetch.gets = 2
    /\ Len(fetch.waits) = 1

----------------------------------------------------------------------------
(* Paginated list fetch: fetchExoProductsList.  Every page request is one  *)
(* call of fetchWithRetry, whose attempts and sleeps are the steps above.  *)

MaxPages == 2

\* line 180
PageSizes == <<50, 25, 10, 5>>

FetchIdle ==
    [pc |-> "idle", attempt |-> 0, gets |-> 0, waits |-> <<>>,
     last |-> NoError, result |-> "none"]

\* what a 2xx body of the list endpoint can be: an array of briefs (possibly
\* empty) or something that is no array and has no items array (here an
\* object that holds a brief under another key)
PageBodies ==
    { [shape |-> "array", items |-> <<>>],
      [shape |-> "other", items |-> <<[id |-> "X", stockcode |-> Null,
                                       stockCode |-> Null, barcode1 |-> Null]>>],
      [shape |-> "array", items |-> <<[id |-> "X", stockcode |-> Null,
                                       stockCode |-> Null, barcode1 |-> Null]>>],
      [shape |-> "array", items |-> <<[id |-> Null, stockcode |-> Null,
                                       stockCode |-> Null, barcode1 |-> Null],
                                      [id |-> Null, stockcode |-> Null,
                                       stockCode |-> Null, barcode1 |-> "Y"]>>],
      [shape |-> "array", items |-> <<[id |-> "", stockcode |-> "Y",
                                       stockCode |-> Null, barcode1 |-> Null]>>] }

\* a reader that takes the briefs of a body of any shape
PageDataAnyShape(body) == body.items

\* lines 192-195: items is null, the body is neither an array nor an object
\* with an items array
BadShape(body) == body.shape # "array"

\* lines 192-202: pageData for a body
PageData(body) == IF body.shape = "array" THEN body.items ELSE <<>>

\* a catch that steps down on every 5xx status
IsStepDownAny5xx(e) == e.status >= 500

\* line 205: e?.response?.status === 504
IsStepDown(e) == e.status = 504

\* a fetcher for which the end marker is an ordinary body
PageEndNever(result) == FALSE

\* line 190: data?.__END__
PageEnd(result) == result = "END"

\* a loop that takes an empty page for a page like any other
PageEmptyNever(pageData) == FALSE

\* line 214: pageData.length === 0
PageEmpty(pageData) == pageData = <<>>

\* lines 178-179: all = [], page = 1, and the first size of the for loop
PagerEntry == [PagerIdle EXCEPT !.pc = "request", !.page = 1, !.size = 1]

\* a caller enters fetchExoProductsList
ListCall ==
    /\ pager.pc \in {"idle", "returned", "thrown"}
    /\ pager' = PagerEntry
    /\ UNCHANGED <<products, quoteSide, fetch, upstream, runs, hist, isSyncing>>

\* lines 187-189: fetchWithRetry is called for page and size
ListRequest ==
    /\ pager.pc = "request"
    /\ fetch' = FetchEntry
    /\ pager' = [pager EXCEPT !.pc = "await"]
    /\ UNCHANGED <<products, quoteSide, upstream, runs, hist, isSyncing>>

\* lines 190-217: fetchWithRetry has returned or thrown
ListResume(body) ==
    /\ pager.pc = "await"
    /\ fetch.pc \in {"returned", "thrown"}
    /\ fetch' = FetchIdle
    /\ IF fetch.pc = "thrown" THEN
          \* lines 204-210
          IF IsStepDown(fetch.last)
          THEN pager' = [pager EXCEPT !.pc = "pause", !.err = fetch.last]
          ELSE pager' = [pager EXCEPT !.pc = "thrown", !.err = fetch.last,
                                      !.gaveUp = TRUE]
       ELSE IF PageEnd(fetch.result) \/ PageEmpty(PageData(body)) THEN
          \* lines 190, 198, 214: nothing on this page, the loop ends
          pager' = [pager EXCEPT !.pc = "returned", !.err = fetch.last,
                                 !.badShape = ~PageEnd(fetch.result) /\ BadShape(body)]
       ELSE
          \* lines 200-203, 215-217
          /\ pager.page <= MaxPages
          /\ pager' = [pager EXCEPT !.pc = "request",
                                    !.all = @ \o PageData(body),
                                    !.pages = Append(@, PageData(body)),
                                    !.page = @ + 1, !.size = 1,
                                    !.err = NoError]
    /\ UNCHANGED <<products, quoteSide, upstream, runs, hist, isSyncing>>

\* lines 207-208 and 214: the pause ends; the next smaller size is tried, or
\* the sizes are used up, pageData is still null and the loop ends
ListPause ==
    /\ pager.pc = "pause"
    /\ pager' = IF pager.size < Len(PageSizes)
                THEN [pager EXCEPT !.pc = "request", !.size = @ + 1, !.pauses = @ + 1]
                ELSE [pager EXCEPT !.pc = "returned", !.pauses = @ + 1,
                                   !.gaveUp = TRUE]
    /\ UNCHANGED <<products, quoteSide, fetch, upstream, runs, hist, isSyncing>>

InitList ==
    /\ products = {}
    /\ quotes = <<>>
    /\ items = {}
    /\ nextItemId = 1
    /\ taxRate = 0
    /\ smtp = FALSE
    /\ lastOp = Op("init", 0, 0, 0)
    /\ reqs = <<>>
    /\ SyncIdle

NextList ==
    \/ ListCall
    \/ ListRequest
    \/ \E o \in Outcomes : FetchAttempt(o)
    \/ FetchBackoff
    \/ \E body \in PageBodies : ListResume(body)
    \/ ListPause

\* requests are answered or time out, and sleeps end
SpecList ==
    /\ InitList /\ [][NextList]_vars
    /\ WF_vars(ListRequest)
    /\ WF_vars(\E o \in Outcomes : FetchAttempt(o))
    /\ WF_vars(FetchBackoff)
    /\ WF_vars(\E body \in PageBodies : ListResume(body))
    /\ WF_vars(ListPause)

RECURSIVE Flatten(_)
Flatten(pages) == IF pages = <<>> THEN <<>> ELSE Head(pages) \o Flatten(Tail(pages))

\* the step in which fetchExoProductsList takes the result of fetchWithRetry
IsResumeStep == pager.pc = "await" /\ pager'.pc # "await"

\* C11: when the request for page N > 1 ends in a 404 after pages 1..N-1 have
\* returned items, the list fetch returns the items of pages 1..N-1 in page
\* order, raises no error, and requests nothing more in that call.
C11_NotFoundEndsPagination ==
    /\ [][ (IsResumeStep /\ fetch.pc = "returned" /\ fetch.last.status = 404
              /\ pager.page > 1)
           => /\ pager'.pc = "returned"
              /\ Len(pager.pages) = pager.page - 1
              /\ \A k \in 1..Len(pager.pages) : pager.pages[k] # <<>>
              /\ pager'.all = Flatten(pager.pages)
              /\ pager'.page = pager.page
              /\ ~pager'.gaveUp ]_vars
    /\ [][ pager.pc = "returned"
           => \/ pager'.pc = "returned" /\ pager'.all = pager.all
              \/ pager'.pc = "request" /\ pager'.page = 1 /\ pager'.all = <<>> ]_vars

\* page 3 has answered 404 and the items of pages 1 and 2 are returned
C11_Witness ==
    /\ pager.pc = "returned"
    /\ pager.err.status = 404
    /\ pager.page = 3
    /\ Len(pager.pages) = 2
    /\ Len(pager.all) >= 2
    /\ ~pager.gaveUp

\* C12: a page fetch that ends in a 504 at a size that has a smaller one is
\* followed by a pause and a request for the same page at the next smaller
\* size of 50, 25, 10, 5; a fetch that ends in any other error leaves the
\* list fetch with that error and no smaller size is tried.
C12_StepDown ==
    /\ [][ (IsResumeStep /\ fetch.pc = "thrown" /\ fetch.last.status = 504)
           => /\ pager'.pc = "pause"
              /\ pager'.page = pager.page /\ pager'.size = pager.size
              /\ pager'.all = pager.all ]_vars
    /\ [][ (pager.pc = "pause" /\ pager'.pc # "pause" /\ pager.size < Len(PageSizes))
           => /\ pager'.pc = "request"
              /\ pager'.page = pager.page
              /\ pager'.size = pager.size + 1
              /\ PageSizes[pager'.size] < PageSizes[pager.size]
              /\ pager'.pauses = pager.pauses + 1 ]_vars
    /\ [][ (IsResumeStep /\ fetch.pc = "thrown" /\ fetch.last.status # 504)
           => /\ pager'.pc = "thrown"
              /\ pager'.err = fetch.last
              /\ pager'.size = pager.size ]_vars
    /\ [](pager.pc = "thrown" => pager.err.status # 504)
    /\ ((pager.pc = "pause" /\ pager.size < Len(PageSizes)) ~> (pager.pc = "await"))

\* page 2 is being requested at size 10 after two 504 step-downs
C12_Witness ==
    /\ pager.pc = "await"
    /\ pager.page = 2
    /\ PageSizes[pager.size] = 10
    /\ pager.pauses = 2
    /\ pager.err.status = 504

\* C25: a 2xx list page whose body is neither an array nor an object with an
\* items array adds no item and ends the paging: the fetch returns the items
\* of the earlier pages, throws nothing and requests nothing more in that call.
C25_BadShapeIsEmptyPage ==
    /\ [][ (IsResumeStep /\ fetch.pc = "returned" /\ ~PageEnd(fetch.result)
              /\ \E body \in PageBodies : BadShape(body) /\ ListResume(body))
           => /\ pager'.pc = "returned"
              /\ pager'.all = pager.all
              /\ pager'.all = Flatten(pager.pages)
              /\ pager'.page = pager.page
              /\ ~pager'.gaveUp ]_vars
    /\ [][ (pager.pc = "returned" /\ pager.badShape)
           => \/ pager'.pc = "returned" /\ pager'.all = pager.all
              \/ pager'.pc = "request" /\ pager'.page = 1 /\ pager'.all = <<>> ]_vars

\* page 2 had an unexpected shape and the items of page 1 are returned
C25_Witness ==
    /\ pager.pc = "returned"
    /\ pager.badShape
    /\ pager.page = 2
    /\ Len(pager.pages) = 1
    /\ pager.all = pager.pages[1]
    /\ pager.all # <<>>

----------------------------------------------------------------------------
(* Sync orchestrator of index.js: syncProducts, started by GET /sync and by *)
(* the hourly cron job.  Each await is one step.                            *)

Triggers == {"manual", "cron"}

\* a brief record of the list: the four fields line 242 reads (Null is
\* undefined or null)
Brief(id, stockcode, stockCode, barcode1) ==
    [id |-> id, stockcode |-> stockcode, stockCode |-> stockCode, barcode1 |-> barcode1]

\* an identifier taken from the first field that holds a usable value
BriefIdFirstUsable(b) ==
    IF b.id \notin {Null, ""} THEN b.id
    ELSE IF b.stockcode \notin {Null, ""} THEN b.stockcode
    ELSE IF b.stockCode \notin {Null, ""} THEN b.stockCode
    ELSE b.barcode1

\* line 242: brief?.id ?? brief?.stockcode ?? brief?.stockCode ?? brief?.barcode1
BriefId(b) ==
    IF b.id # Null THEN b.id
    ELSE IF b.stockcode # Null THEN b.stockcode
    ELSE IF b.stockCode # Null THEN b.stockCode
    ELSE b.barcode1

\* line 243: !briefId
NoBriefId(b) == BriefId(b) \in {Null, ""}

\* the catalogs the EXO endpoints may serve: the brief list in page order ("" is
\* a brief without id, stockcode or barcode) and the detail record per id
Catalogs ==
    { [ list |-> <<Brief("X", Null, Null, Null), Brief(Null, "Y", Null, Null)>>,
        details |-> [c \in StockCodes |->
            IF c = "X"
            THEN [id |-> "X", description |-> "rug", price |-> 10000, totalinstock |-> JsInt(1)]
            ELSE [id |-> "Y", description |-> "mat", price |-> 2500, totalinstock |-> JsInt(0)]] ],
      [ list |-> <<Brief("X", Null, Null, Null), Brief(Null, Null, Null, Null),
                   Brief(Null, "Y", Null, Null)>>,
        details |-> [c \in StockCodes |->
            IF c = "X"
            THEN [id |-> "X", description |-> "rug", price |-> 10450, totalinstock |-> JsInt(1)]
            ELSE EndMarker] ] }

IdleRun == [pc |-> "idle", todo |-> <<>>, cur |-> EndMarker, saved |-> 0,
            clean |-> TRUE, solo |-> TRUE, up |-> <<>>]

Active(r) == r.pc \notin {"idle", "done"}

\* syncProducts is entered (line 234): nothing stops a second invocation
SyncTrigger(t) ==
    /\ ~Active(runs[t])
    /\ runs' = [u \in Triggers |->
          IF u = t
          THEN [IdleRun EXCEPT !.pc = "list", !.up = upstream,
                               !.solo = \A v \in Triggers \ {t} : ~Active(runs[v])]
          ELSE IF Active(runs[u]) THEN [runs[u] EXCEPT !.solo = FALSE]
          ELSE runs[u]]
    /\ UNCHANGED <<products, quoteSide, pager, fetch, upstream, hist, isSyncing>>

\* line 236: fetchExoProductsList returns the brief list or throws (fatal)
SyncList(t, ok) ==
    /\ runs[t].pc = "list"
    /\ runs' = [runs EXCEPT ![t] =
          IF ok THEN [@ EXCEPT !.pc = "loop", !.todo = upstream.list]
          ELSE [@ EXCEPT !.pc = "done", !.clean = FALSE]]
    /\ UNCHANGED <<products, quoteSide, pager, fetch, upstream, hist, isSyncing>>

\* lines 242-246: a brief without identifier is skipped
SyncSkip(t) ==
    /\ runs[t].pc = "loop"
    /\ runs[t].todo # <<>>
    /\ NoBriefId(Head(runs[t].todo))
    /\ runs' = [runs EXCEPT ![t].todo = Tail(@)]
    /\ UNCHANGED <<products, quoteSide, pager, fetch, upstream, hist, isSyncing>>

\* a catch that gives the run up on the first failed item
AfterFailureAbort(r) == [r EXCEPT !.pc = "done", !.todo = <<>>, !.clean = FALSE]

\* lines 320-322: the catch inside the loop logs the error and the for loop
\* goes on with the next brief
AfterFailure(r) == [r EXCEPT !.pc = "loop", !.todo = Tail(@), !.clean = FALSE]

\* lines 250-251: the throttle sleep, then fetchExoProductDetails returns the
\* record (the end marker for a 404) or throws, which ends this item (line 320)
SyncDetails(t, ok) ==
    /\ runs[t].pc = "loop"
    /\ runs[t].todo # <<>>
    /\ ~NoBriefId(Head(runs[t].todo))
    /\ runs' = [runs EXCEPT ![t] =
          IF ok THEN [@ EXCEPT !.pc = "upsert",
                               !.cur = upstream.details[BriefId(Head(runs[t].todo))]]
          ELSE AfterFailure(@)]
    /\ UNCHANGED <<products, quoteSide, pager, fetch, upstream, hist, isSyncing>>

\* lines 254-318: the row is derived and upserted, savedCount++; a rejected
\* upsert ends this item (line 320)
SyncUpsert(t, ok) ==
    /\ runs[t].pc = "upsert"
    /\ ok => PrismaAccepts(RowOf(runs[t].cur, BriefId(Head(runs[t].todo))))
    /\ IF ok THEN
          /\ products' = Upsert(products, RowOf(runs[t].cur, BriefId(Head(runs[t].todo))))
          /\ runs' = [runs EXCEPT ![t].pc = "loop", ![t].todo = Tail(@),
                                  ![t].saved = @ + 1]
          /\ hist' = IF hist.valid /\ hist.up # runs[t].up
                     THEN [hist EXCEPT !.valid = FALSE, !.n = 0]
                     ELSE hist
       ELSE
          /\ runs' = [runs EXCEPT ![t] = AfterFailure(@)]
          /\ UNCHANGED <<products, hist>>
    /\ UNCHANGED <<quoteSide, pager, fetch, upstream, isSyncing>>

\* line 325: the loop is over
SyncFinish(t) ==
    /\ runs[t].pc = "loop"
    /\ runs[t].todo = <<>>
    /\ runs' = [runs EXCEPT ![t].pc = "done"]
    /\ hist' = IF runs[t].clean /\ runs[t].solo
               THEN [ valid |-> TRUE, rows |-> products, up |-> runs[t].up,
                      n |-> IF hist.valid /\ hist.up = runs[t].up THEN 2 ELSE 1 ]
               ELSE hist
    /\ UNCHANGED <<products, quoteSide, pager, fetch, upstream, isSyncing>>

\* the upstream data changes under the runs in flight
UpstreamChange ==
    /\ \E c \in Catalogs \ {upstream} : upstream' = c
    /\ runs' = [t \in Triggers |->
          IF Active(runs[t]) THEN [runs[t] EXCEPT !.clean = FALSE] ELSE runs[t]]
    /\ UNCHANGED <<products, quoteSide, pager, fetch, hist, isSyncing>>

InitSync ==
    /\ products = {}
    /\ quotes = <<>>
    /\ items = {}
    /\ nextItemId = 1
    /\ taxRate = 0
    /\ smtp = FALSE
    /\ lastOp = Op("init", 0, 0, 0)
    /\ reqs = <<>>
    /\ fetch = [pc |-> "idle", attempt |-> 0, gets |-> 0, waits |-> <<>>,
                last |-> NoError, result |-> "none"]
    /\ upstream \in Catalogs
    /\ runs = [t \in Triggers |-> IdleRun]
    /\ hist = [valid |-> FALSE, rows |-> {}, up |-> <<>>, n |-> 0]
    /\ pager = PagerIdle
    /\ isSyncing = FALSE

NextSync ==
    \/ \E t \in Triggers : SyncTrigger(t)
    \/ \E t \in Triggers, ok \in BOOLEAN : SyncList(t, ok)
    \/ \E t \in Triggers : SyncSkip(t)
    \/ \E t \in Triggers, ok \in BOOLEAN : SyncDetails(t, ok)
    \/ \E t \in Triggers, ok \in BOOLEAN : SyncUpsert(t, ok)
    \/ \E t \in Triggers : SyncFinish(t)
    \/ UpstreamChange

SpecSync == InitSync /\ [][NextSync]_vars

\* C2: at most one sync run is in flight at any time; a trigger that arrives
\* while a run is in flight fetches nothing and upserts nothing.
C2_AtMostOneInFlight ==
    Cardinality({t \in Triggers : Active(runs[t])}) <= 1

\* C7: a complete run over the same upstream data as the complete run before
\* it leaves the product rows exactly as that run left them, and no stockCode
\* is ever stored twice.
C7_ResyncIdempotent ==
    /\ [](\A r1, r2 \in products : r1.stockCode = r2.stockCode => r1 = r2)
    /\ [][\A t \in Triggers :
            ( /\ runs[t].pc = "loop" /\ runs'[t].pc = "done"
              /\ runs[t].clean /\ runs[t].solo
              /\ hist.valid /\ hist.up = runs[t].up )
            => products' = hist.rows
       ]_vars

\* a second complete run over unchanged upstream data has just ended
C7_Witness ==
    /\ hist.valid /\ hist.n = 2
    /\ hist.rows = products
    /\ Cardinality(products) = 2
    /\ \E t \in Triggers : runs[t].pc = "done" /\ runs[t].saved = 2 /\ runs[t].clean

----------------------------------------------------------------------------
(* One sync run from the trigger to its end: the list is fetched page by   *)
(* page, then the briefs are worked off.                                   *)

\* line 236: syncProducts calls fetchExoProductsList
SyncListCall(t) ==
    /\ runs[t].pc = "list"
    /\ pager.pc \in {"idle", "returned", "thrown"}
    /\ pager' = PagerEntry
    /\ runs' = [runs EXCEPT ![t].pc = "listing"]
    /\ UNCHANGED <<products, quoteSide, fetch, upstream, hist, isSyncing>>

\* lines 236-241 and 326-328: the list is returned and the loop starts, or the
\* error of the list fetch lands in the outer catch (fatal)
SyncListDone(t) ==
    /\ runs[t].pc = "listing"
    /\ pager.pc \in {"returned", "thrown"}
    /\ runs' = [runs EXCEPT ![t] =
          IF pager.pc = "returned" THEN [@ EXCEPT !.pc = "loop", !.todo = pager.all]
          ELSE [@ EXCEPT !.pc = "done", !.clean = FALSE]]
    /\ UNCHANGED <<products, quoteSide, pager, fetch, upstream, hist, isSyncing>>

Runner == "manual"

InitPipeline == InitSync

\* the run of this process's first trigger
FirstTrigger ==
    /\ runs[Runner].pc = "idle"
    /\ SyncTrigger(Runner)

NextPipeline ==
    \/ FirstTrigger
    \/ SyncListCall(Runner)
    \/ ListRequest
    \/ \E o \in Outcomes : FetchAttempt(o)
    \/ FetchBackoff
    \/ \E body \in PageBodies : ListResume(body)
    \/ ListPause
    \/ SyncListDone(Runner)
    \/ SyncSkip(Runner)
    \/ \E ok \in BOOLEAN : SyncDetails(Runner, ok)
    \/ \E ok \in BOOLEAN : SyncUpsert(Runner, ok)
    \/ SyncFinish(Runner)

\* a run in flight goes on: requests are answered or time out, sleeps end,
\* the database answers
SpecPipeline ==
    /\ InitPipeline /\ [][NextPipeline]_vars
    /\ WF_vars(SyncListCall(Runner))
    /\ WF_vars(ListRequest)
    /\ WF_vars(\E o \in Outcomes : FetchAttempt(o))
    /\ WF_vars(FetchBackoff)
    /\ WF_vars(\E body \in PageBodies : ListResume(body))
    /\ WF_vars(ListPause)
    /\ WF_vars(SyncListDone(Runner))
    /\ WF_vars(SyncSkip(Runner))
    /\ WF_vars(\E ok \in BOOLEAN : SyncDetails(Runner, ok))
    /\ WF_vars(\E ok \in BOOLEAN : SyncUpsert(Runner, ok))
    /\ WF_vars(SyncFinish(Runner))

\* C13: once the list fetch has given up on a page (its fetch failed at every
\* size that was tried), the run upserts nothing: nothing is saved and no
\* brief of the pages fetched before is left to be worked off.
C13_ListFailureIsFatal ==
    pager.gaveUp =>
       /\ products = {}
       /\ runs[Runner].saved = 0
       /\ runs[Runner].todo = <<>>

\* C14: a brief is skipped exactly when none of id, stockcode, stockCode and
\* barcode1 holds a usable value; the skip fetches and writes nothing, the
\* rest of the list stays to be processed, and the saved count goes up by one
\* with each upsert and not otherwise.
C14_SkipOnlyUnidentified ==
    /\ [][ (runs[Runner].pc = "loop" /\ runs[Runner].todo # <<>>)
           => LET r == runs[Runner]
                  unusable == BriefIdFirstUsable(Head(r.todo)) \in {Null, ""}
              IN  /\ (unusable /\ runs' # runs)
                       => /\ SyncSkip(Runner)
                          /\ products' = products
                          /\ runs'[Runner].saved = r.saved
                          /\ runs'[Runner].cur = r.cur
                          /\ runs'[Runner].todo = Tail(r.todo)
                  /\ SyncSkip(Runner) => unusable ]_vars
    /\ [][ runs'[Runner].saved # runs[Runner].saved
           => /\ SyncUpsert(Runner, TRUE)
              /\ runs'[Runner].saved = runs[Runner].saved + 1 ]_vars

\* C15: when the detail fetch or the upsert of an item fails, no row is
\* written and the saved count stays; the run goes on with the next brief and
\* ends only when every brief of the list has been worked off.
C15_ItemFailureContinues ==
    /\ [][ (SyncDetails(Runner, FALSE) \/ SyncUpsert(Runner, FALSE))
           => /\ products' = products
              /\ runs'[Runner].saved = runs[Runner].saved
              /\ runs'[Runner].pc = "loop"
              /\ runs'[Runner].todo = Tail(runs[Runner].todo) ]_vars
    /\ []((runs[Runner].pc = "done" /\ pager.pc = "returned")
             => runs[Runner].todo = <<>>)
    /\ ((runs[Runner].pc \in {"loop", "upsert"}) ~> (runs[Runner].pc = "done"))

\* the item X failed, the later item Y is stored and counted
C15_Witness ==
    /\ runs[Runner].pc = "done"
    /\ ~runs[Runner].clean
    /\ runs[Runner].saved = 1
    /\ Len(pager.all) = 3
    /\ BriefId(pager.all[1]) = "X"
    /\ BriefId(pager.all[3]) = "Y"
    /\ \A r \in products : r.stockCode = "Y"
    /\ products # {}

\* C24: when the detail fetch of a listed item has been answered 404 (the
\* record in hand is the end marker), the step that follows writes no product
\* row and does not count the item as saved.
C24_DetailNotFoundIsFailure ==
    [][ (runs[Runner].pc = "upsert" /\ runs[Runner].cur = EndMarker)
          => /\ products' = products
             /\ runs'[Runner].saved = runs[Runner].saved ]_vars

----------------------------------------------------------------------------
(* The two product upserts of index.js, applied to detail records of every *)
(* shape: the one of the sync loop and the one of GET /sync-one/:id.       *)

\* detail records as the detail endpoint may serve them
DetailInputs ==
    { [id |-> "X", description |-> "rug", price |-> 10000, totalinstock |-> JsInt(1)],
      [id |-> "X", description |-> "", price |-> 10450, totalinstock |-> JsInt(0 - 1)],
      [id |-> "X", description |-> "rug", price |-> 10000, totalinstock |-> JsFrac(1)],
      [id |-> "Y", description |-> "mat", price |-> 2500, totalinstock |-> JsText],
      [id |-> "Y", description |-> "mat", price |-> 2500, totalinstock |-> JsMissing] }

\* lines 417-421: update: { name }, create: { stockCode, name, price: '0',
\* stockLevel: 0 }
UpsertOne(rows, data) ==
    IF \E r \in rows : r.stockCode = data.stockCode
    THEN {IF r.stockCode = data.stockCode THEN [r EXCEPT !.name = data.name] ELSE r
            : r \in rows}
    ELSE rows \cup {[ id |-> Cardinality(rows) + 1, stockCode |-> data.stockCode,
                      name |-> data.name, price |-> 0, stockLevel |-> 0 ]}

\* GET /sync-one/:id: the details are fetched (a 404 hands back the end
\* marker, any other failure is answered 500) and the row is upserted
SyncOne(id, details, ok) ==
    /\ IF ok
       THEN /\ products' = UpsertOne(products, RowOf(details, id))
            /\ lastOp' = Op("sync-one", 0, 0, 200)
       ELSE /\ products' = products
            /\ lastOp' = Op("sync-one", 0, 0, 500)
    /\ UNCHANGED <<quotes, items, nextItemId, taxRate, smtp, reqs, syncSide>>

InitProducts ==
    /\ SyncIdle
    /\ products = {}
    /\ quotes = <<>>
    /\ items = {}
    /\ nextItemId = 1
    /\ taxRate = 0
    /\ smtp = FALSE
    /\ lastOp = Op("init", 0, 0, 0)
    /\ reqs = <<>>

NextProducts ==
    \/ \E d \in DetailInputs : SyncRow(d)
    \/ \E id \in StockCodes :
          \E d \in {x \in DetailInputs : x.id = id} \cup {EndMarker}, ok \in BOOLEAN :
             SyncOne(id, d, ok)

SpecProducts == InitProducts /\ [][NextProducts]_vars

\* the row of rows that carries the attributes of the single row of fresh
SameAsFresh(rows, fresh) ==
    \E r \in rows, f \in fresh :
        /\ r.stockCode = f.stockCode
        /\ r.name = f.name
        /\ r.price = f.price
        /\ r.stockLevel = f.stockLevel

\* C16: after a product upsert of a details record, the row of its stockCode
\* carries the attributes the same upsert stores when no such row existed
\* before, for the upsert of the sync loop and for the one of /sync-one.
C16_SameAttributeSet ==
    /\ [][ \A d \in DetailInputs :
             (SyncRow(d) /\ lastOp'.res = 200)
               => SameAsFresh(products', Upsert({}, RowOf(d, d.id))) ]_vars
    /\ [][ \A id \in StockCodes, d \in DetailInputs \cup {EndMarker} :
             (SyncOne(id, d, TRUE) /\ (d = EndMarker \/ d.id = id))
               => SameAsFresh(products', UpsertOne({}, RowOf(d, id))) ]_vars

\* C17: every stored stockLevel is an integer that is not negative.
C17_StockLevelNonNegative ==
    \A r \in products : r.stockLevel \in Nat

----------------------------------------------------------------------------
(* Size derivation of the sync loop (index.js 268-294).  A string is the    *)
(* sequence of its characters, a number is counted in hundredths.           *)

Digits == <<"0", "1", "2", "3", "4", "5", "6", "7", "8", "9">>
IsDigit(c) == \E d \in 1..10 : Digits[d] = c
DigitVal(c) == (CHOOSE d \in 1..10 : Digits[d] = c) - 1

\* JS values: undefined, a number, a string
Undef == [kind |-> "undef", h |-> 0, s |-> <<>>]
Num(h) == [kind |-> "num", h |-> h, s |-> <<>>]
Text(s) == [kind |-> "text", h |-> 0, s |-> s]

\* a measure after parsing: null or a number
NoMeasure == [kind |-> "null", h |-> 0]
Measure(h) == [kind |-> "num", h |-> h]

\* the index after the run of digits that starts at i
RECURSIVE DigitsEnd(_, _)
DigitsEnd(s, i) == IF i <= Len(s) /\ IsDigit(s[i]) THEN DigitsEnd(s, i + 1) ELSE i

\* the regular expression -?\d+(\.\d+)? tried at position i: the index after
\* the match, or 0 when it does not match there
MatchEnd(s, i) ==
    LET start == IF s[i] = "-" THEN i + 1 ELSE i
        e1 == DigitsEnd(s, start)
    IN  IF start > Len(s) \/ ~IsDigit(s[start]) THEN 0
        ELSE IF e1 + 1 <= Len(s) /\ s[e1] = "." /\ IsDigit(s[e1 + 1])
             THEN DigitsEnd(s, e1 + 1)
             ELSE e1

\* String.match with the g flag: every match from the left, not overlapping
RECURSIVE NumTokens(_, _)
NumTokens(s, i) ==
    IF i > Len(s) THEN <<>>
    ELSE LET e == MatchEnd(s, i)
         IN  IF e = 0 THEN NumTokens(s, i + 1)
             ELSE <<SubSeq(s, i, e - 1)>> \o NumTokens(s, e)

\* replace(/,/g, '.')
CommaToDot(s) == [i \in 1..Len(s) |-> IF s[i] = "," THEN "." ELSE s[i]]

\* String.trim for blanks
RECURSIVE Trim(_)
Trim(s) ==
    IF s = <<>> THEN s
    ELSE IF Head(s) = " " THEN Trim(Tail(s))
    ELSE IF s[Len(s)] = " " THEN Trim(SubSeq(s, 1, Len(s) - 1))
    ELSE s

RECURSIVE DigitsValue(_)
DigitsValue(s) ==
    IF s = <<>> THEN 0
    ELSE DigitsValue(SubSeq(s, 1, Len(s) - 1)) * 10 + DigitVal(s[Len(s)])

\* parseFloat of a token of the regular expression, in hundredths (the inputs
\* carry at most two decimals)
ParseFloat(tok) ==
    LET neg == tok[1] = "-"
        body == IF neg THEN Tail(tok) ELSE tok
        e == DigitsEnd(body, 1)
        frac == IF e > Len(body) THEN <<>> ELSE SubSeq(body, e + 1, Len(body))
        abs == DigitsValue(SubSeq(body, 1, e - 1)) * 100
                 + DigitsValue(SubSeq(frac \o <<"0", "0">>, 1, 2))
    IN  IF neg THEN 0 - abs ELSE abs

RECURSIVE DigitsOf(_)
DigitsOf(n) ==
    IF n < 10 THEN <<Digits[n + 1]>>
    ELSE DigitsOf(n \div 10) \o <<Digits[(n % 10) + 1]>>

\* String(n) and `${n}` for a number of hundredths: no trailing zeros
Format(h) ==
    LET abs == IF h < 0 THEN 0 - h ELSE h
        fr == abs % 100
    IN  (IF h < 0 THEN <<"-">> ELSE <<>>)
          \o DigitsOf(abs \div 100)
          \o (IF fr = 0 THEN <<>>
              ELSE IF fr % 10 = 0 THEN <<".", Digits[(fr \div 10) + 1]>>
              ELSE <<".", Digits[(fr \div 10) + 1], Digits[(fr % 10) + 1]>>)

\* String(v) of a number or a string
JsString(v) == IF v.kind = "num" THEN Format(v.h) ELSE v.s

\* lines 164-172
ParseMeasure(v) ==
    IF v.kind = "undef" THEN NoMeasure
    ELSE LET m == NumTokens(CommaToDot(Trim(JsString(v))), 1)
         IN  IF m = <<>> THEN NoMeasure ELSE Measure(ParseFloat(m[1]))

\* an extra field { value: v } as findExtraField hands it back, or none found
NoField == [found |-> FALSE, value |-> Undef]
Field(v) == [found |-> TRUE, value |-> v]

\* lines 103-118 for an object that holds its value under `value`: the first
\* candidate that is not blank is obj.value.toString()
ExtractValue(f) ==
    IF ~f.found \/ f.value.kind = "undef" THEN Undef
    ELSE IF Trim(JsString(f.value)) = <<>> THEN Undef
    ELSE Text(JsString(f.value))

\* JS truthiness of a measure: a number other than 0
Truthy(m) == m.kind = "num" /\ m.h # 0

\* line 279, 289: `${length} x ${width}`
SizeText(length, width) == Format(length.h) \o <<" ", "x", " ">> \o Format(width.h)

\* lines 268-294: length, width and size of a details record d
DeriveSize(d) ==
    LET l1 == IF d.lengthField.found THEN ParseMeasure(ExtractValue(d.lengthField))
              ELSE NoMeasure
        w1 == IF d.widthField.found THEN ParseMeasure(ExtractValue(d.widthField))
              ELSE NoMeasure
        l2 == IF l1.kind = "null" THEN ParseMeasure(d.length) ELSE l1
        w2 == IF w1.kind = "null" THEN ParseMeasure(d.width) ELSE w1
        sizeRaw == IF d.sizeField.found /\ ExtractValue(d.sizeField).kind # "undef"
                   THEN JsString(ExtractValue(d.sizeField)) ELSE <<>>
        nums == NumTokens(CommaToDot(sizeRaw), 1)
        l3 == IF l2.kind = "null" THEN Measure(ParseFloat(nums[1])) ELSE l2
        w3 == IF w2.kind = "null" THEN Measure(ParseFloat(nums[2])) ELSE w2
    IN  IF Truthy(l2) /\ Truthy(w2) THEN
            [length |-> l2, width |-> w2, size |-> SizeText(l2, w2)]
        ELSE IF sizeRaw = <<>> THEN
            [length |-> l2, width |-> w2, size |-> <<>>]
        ELSE IF Len(nums) >= 2 THEN
            [length |-> l3, width |-> w3,
             size |-> IF Truthy(l3) /\ Truthy(w3) THEN SizeText(l3, w3) ELSE <<>>]
        ELSE
            [length |-> l2, width |-> w2, size |-> sizeRaw]

\* the values the extra fields and the top-level properties are given:
\* "240 cm", "0", "n/a", "1,7 m", the number 170; "240 x 170", "large",
\* "2.4m x 0", "90"
LengthTexts ==
    { Text(<<"2", "4", "0", " ", "c", "m">>), Text(<<"0">>), Text(<<"n", "/", "a">>) }
WidthValues == { Text(<<"1", ",", "7", " ", "m">>), Num(17000) }
SizeTexts ==
    { Text(<<"2", "4", "0", " ", "x", " ", "1", "7", "0">>),
      Text(<<"l", "a", "r", "g", "e">>),
      Text(<<"2", ".", "4", "m", " ", "x", " ", "0">>),
      Text(<<"9", "0">>) }

\* details records as far as the size derivation reads them
SizeInputs ==
    [ lengthField : {NoField} \cup {Field(v) : v \in LengthTexts},
      widthField  : {NoField} \cup {Field(v) : v \in WidthValues},
      length      : {Undef, Num(30000)},
      width       : {Undef},
      sizeField   : {NoField} \cup {Field(v) : v \in SizeTexts} ]

\* lines 312-316, the attributes length, width and size of the upserted row
UpsertSize(rows, stockCode, dims) ==
    {r \in rows : r.stockCode # stockCode}
      \cup {[ stockCode |-> stockCode, length |-> dims.length,
              width |-> dims.width, size |-> dims.size ]}

\* one item of the sync loop: the sizes are derived and stored
SyncSize(id, d) ==
    /\ products' = UpsertSize(products, id, DeriveSize(d))
    /\ UNCHANGED <<quoteSide, syncSide>>

InitSize == InitProducts

NextSize == \E id \in StockCodes, d \in SizeInputs : SyncSize(id, d)

SpecSize == InitSize /\ [][NextSize]_vars

\* C26: whenever the stored length and width are both numbers, the stored
\* size is "<length> x <width>".
C26_SizeFromBothSides ==
    \A r \in products :
        (r.length.kind = "num" /\ r.width.kind = "num")
          => r.size = SizeText(r.length, r.width)

\* the rest of the derivation: a combined field with two numeric tokens fills
\* only a side that is still missing, and one with fewer tokens is the size
\* when the two sides are not both numbers other than 0
SizeFieldFillsMissing ==
        \A d \in SizeInputs :
            LET row == DeriveSize(d)
                l == IF d.lengthField.found
                        /\ ParseMeasure(ExtractValue(d.lengthField)).kind = "num"
                     THEN ParseMeasure(ExtractValue(d.lengthField))
                     ELSE ParseMeasure(d.length)
                w == IF d.widthField.found
                        /\ ParseMeasure(ExtractValue(d.widthField)).kind = "num"
                     THEN ParseMeasure(ExtractValue(d.widthField))
                     ELSE ParseMeasure(d.width)
                raw == IF d.sizeField.found THEN JsString(d.sizeField.value) ELSE <<>>
                nums == NumTokens(CommaToDot(raw), 1)
            IN  /\ l.kind = "num" => row.length = l
                /\ w.kind = "num" => row.width = w
                /\ (~(Truthy(l) /\ Truthy(w)) /\ Len(nums) >= 2) =>
                      /\ l.kind = "null" => row.length = Measure(ParseFloat(nums[1]))
                      /\ w.kind = "null" => row.width = Measure(ParseFloat(nums[2]))
                /\ (~(Truthy(l) /\ Truthy(w)) /\ raw # <<>> /\ Len(nums) < 2) =>
                      row.size = raw
                /\ (Truthy(l) /\ Truthy(w)) => row.size = SizeText(l, w)

----------------------------------------------------------------------------
(* The paginated list fetch against a fixed catalog: the endpoint answers   *)
(* page=p&pagesize=s with the items (p-1)*s+1 .. p*s of its list.           *)

\* the list the endpoint serves, in upstream order
CatalogList ==
    << Brief("A", Null, Null, Null), Brief("B", Null, Null, Null),
       Brief("C", Null, Null, Null), Brief("D", Null, Null, Null),
       Brief("E", Null, Null, Null), Brief("F", Null, Null, Null),
       Brief("G", Null, Null, Null) >>

\* line 187: what stockitem?page=${page}&pagesize=${size} selects of a list
PageOf(list, page, size) ==
    SubSeq(list, (page - 1) * size + 1,
           IF page * size < Len(list) THEN page * size ELSE Len(list))

\* the 2xx body for the page and size of the request under way
ServedBody ==
    [shape |-> "array",
     items |-> PageOf(upstream.list, pager.page, PageSizes[pager.size])]

InitCatalog ==
    /\ products = {}
    /\ quotes = <<>>
    /\ items = {}
    /\ nextItemId = 1
    /\ taxRate = 0
    /\ smtp = FALSE
    /\ lastOp = Op("init", 0, 0, 0)
    /\ reqs = <<>>
    /\ fetch = FetchIdle
    /\ pager = PagerIdle
    /\ isSyncing = FALSE
    /\ runs = <<>>
    /\ hist = [valid |-> FALSE, rows |-> {}, up |-> <<>>, n |-> 0]
    /\ upstream = [list |-> CatalogList, details |-> [c \in StockCodes |-> EndMarker]]

NextCatalog ==
    \/ ListCall
    \/ ListRequest
    \/ \E o \in Outcomes : FetchAttempt(o)
    \/ FetchBackoff
    \/ ListResume(ServedBody)
    \/ ListPause

SpecCatalog == InitCatalog /\ [][NextCatalog]_vars

\* C27: a list fetch that returns without having met a 404 and without having
\* given a page up returns every item of the catalog once, in upstream order.
C27_EveryItemOnce ==
    (pager.pc = "returned" /\ ~pager.gaveUp /\ pager.err.status # 404)
      => pager.all = upstream.list

----------------------------------------------------------------------------
(* The guarded sync (unnamed/part_001): syncProducts behind the isSyncing   *)
(* flag.  Each invocation runs up to its next await in one step.            *)

\* an invocation of the guarded syncProducts: where it stands, the briefs
\* still to do, the details in hand, and how it ended
GuardIdle == [pc |-> "idle", todo |-> <<>>, cur |-> EndMarker, ended |-> "none"]

\* between isSyncing = true (line 72) and the finally block (line 129)
GuardActive(r) == r.pc \in {"list", "loop", "upsert"}

\* a catalog in which every brief carries its id
PlainCatalog ==
    [ list |-> <<Brief("X", Null, Null, Null), Brief("Y", Null, Null, Null)>>,
      details |-> [c \in StockCodes |->
          IF c = "X"
          THEN [id |-> "X", description |-> "rug", price |-> 10000, totalinstock |-> JsInt(1)]
          ELSE [id |-> "Y", description |-> "mat", price |-> 2500, totalinstock |-> JsInt(0)]] ]

\* lines 98-125: the attributes the guarded sync upserts
GuardRowOf(details) ==
    [ stockCode  |-> details.id,
      name       |-> IF details.description = "" THEN "Untitled" ELSE details.description,
      price      |-> details.price,
      stockLevel |-> IF details.totalinstock.kind = "missing"
                     THEN JsInt(0) ELSE details.totalinstock ]

\* a flag that is reset only at the end of a complete run
FlagAfterEndOnSuccess(how) == how # "complete"

\* lines 128-130: finally { isSyncing = false }
FlagAfterEnd(how) == FALSE

\* the run leaves the try block: normally (line 126) or through catch (127)
GuardEnd(t, how) ==
    /\ runs' = [runs EXCEPT ![t] = [GuardIdle EXCEPT !.pc = "done", !.ended = how]]
    /\ isSyncing' = FlagAfterEnd(how)

\* lines 67-73: syncProducts is called; the flag is tested and set without an
\* await in between
GuardEnter(t) ==
    /\ ~GuardActive(runs[t])
    /\ IF isSyncing
       THEN /\ runs' = [runs EXCEPT ![t] = [GuardIdle EXCEPT !.pc = "done",
                                                            !.ended = "skipped"]]
            /\ UNCHANGED isSyncing
       ELSE /\ runs' = [runs EXCEPT ![t] = [GuardIdle EXCEPT !.pc = "list"]]
            /\ isSyncing' = TRUE
    /\ UNCHANGED <<products, quoteSide, fetch, upstream, hist, pager>>

\* line 74: fetchExoProductsList resolves or rejects
GuardList(t, ok) ==
    /\ runs[t].pc = "list"
    /\ IF ok
       THEN /\ runs' = [runs EXCEPT ![t].pc = "loop", ![t].todo = upstream.list]
            /\ UNCHANGED isSyncing
       ELSE GuardEnd(t, "list")
    /\ UNCHANGED <<products, quoteSide, fetch, upstream, hist, pager>>

\* line 78: fetchExoProductDetails(briefProduct.id) resolves (the id names a
\* record the endpoint has) or rejects
GuardDetails(t, ok) ==
    /\ runs[t].pc = "loop"
    /\ runs[t].todo # <<>>
    /\ ok => /\ Head(runs[t].todo).id \in StockCodes
             /\ upstream.details[Head(runs[t].todo).id] # EndMarker
    /\ IF ok
       THEN /\ runs' = [runs EXCEPT ![t].pc = "upsert",
                                    ![t].cur = upstream.details[Head(runs[t].todo).id]]
            /\ UNCHANGED isSyncing
       ELSE GuardEnd(t, "details")
    /\ UNCHANGED <<products, quoteSide, fetch, upstream, hist, pager>>

\* lines 81-125: the stored row is looked up; an unchanged product is passed
\* over, otherwise the row is upserted, which resolves or rejects
GuardUpsert(t, ok, changed) ==
    /\ runs[t].pc = "upsert"
    /\ IF (\E r \in products : r.stockCode = runs[t].cur.id) /\ ~changed
       THEN /\ runs' = [runs EXCEPT ![t].pc = "loop", ![t].todo = Tail(@)]
            /\ UNCHANGED <<products, isSyncing>>
       ELSE IF ok
       THEN /\ products' = Upsert(products, GuardRowOf(runs[t].cur))
            /\ runs' = [runs EXCEPT ![t].pc = "loop", ![t].todo = Tail(@)]
            /\ UNCHANGED isSyncing
       ELSE /\ GuardEnd(t, "upsert")
            /\ UNCHANGED products
    /\ UNCHANGED <<quoteSide, fetch, upstream, hist, pager>>

\* line 126: the loop is over
GuardFinish(t) ==
    /\ runs[t].pc = "loop"
    /\ runs[t].todo = <<>>
    /\ GuardEnd(t, "complete")
    /\ UNCHANGED <<products, quoteSide, fetch, upstream, hist, pager>>

InitGuard ==
    /\ products = {}
    /\ quotes = <<>>
    /\ items = {}
    /\ nextItemId = 1
    /\ taxRate = 0
    /\ smtp = FALSE
    /\ lastOp = Op("init", 0, 0, 0)
    /\ reqs = <<>>
    /\ fetch = FetchIdle
    /\ pager = PagerIdle
    /\ hist = [valid |-> FALSE, rows |-> {}, up |-> <<>>, n |-> 0]
    /\ upstream \in Catalogs \cup {PlainCatalog}
    /\ runs = [t \in Triggers |-> GuardIdle]
    /\ isSyncing = FALSE

NextGuard ==
    \E t \in Triggers :
       \/ GuardEnter(t)
       \/ \E ok \in BOOLEAN : GuardList(t, ok)
       \/ \E ok \in BOOLEAN : GuardDetails(t, ok)
       \/ \E ok \in BOOLEAN, changed \in BOOLEAN : GuardUpsert(t, ok, changed)
       \/ GuardFinish(t)

SpecGuard == InitGuard /\ [][NextGuard]_vars

\* C32: in the guarded sync the flag is set exactly while a run is executing
\* (and at most one is); every way a run ends, complete or failed in list
\* fetch, detail fetch or upsert, leaves the flag cleared; and a call of
\* syncProducts made while no run is executing starts a run.
C32_FlagFollowsRun ==
    /\ [](isSyncing <=> \E t \in Triggers : GuardActive(runs[t]))
    /\ [](Cardinality({t \in Triggers : GuardActive(runs[t])}) <= 1)
    /\ [][ \A t \in Triggers :
             (GuardActive(runs[t]) /\ ~GuardActive(runs'[t]))
               => /\ ~isSyncing'
                  /\ runs'[t].ended \in {"complete", "list", "details", "upsert"} ]_vars
    /\ [][ \A t \in Triggers :
             (GuardEnter(t) /\ ~\E u \in Triggers : GuardActive(runs[u]))
               => /\ runs'[t].pc = "list"
                  /\ isSyncing' ]_vars

\* the manual run has failed in its upsert and the cron trigger that came
\* afterwards has started a run of its own
C32_Witness ==
    /\ runs["manual"].pc = "done"
    /\ runs["manual"].ended = "upsert"
    /\ runs["cron"].pc = "loop"
    /\ isSyncing
    /\ products # {}

----------------------------------------------------------------------------
(* Termination of the paginated fetch against the fixed catalog *)

PagerActive == pager.pc \in {"request", "await", "pause"}

\* every request is answered or times out, and every sleep ends; when the
\* fetch is called is up to the caller
SpecCatalogLive ==
    /\ InitCatalog /\ [][NextCatalog]_vars
    /\ WF_vars(ListRequest)
    /\ WF_vars(\E o \in Outcomes : FetchAttempt(o))
    /\ WF_vars(FetchBackoff)
    /\ WF_vars(ListResume(ServedBody))
    /\ WF_vars(ListPause)

\* C33: against a finite catalog a list fetch under way ends (it returns or
\* throws); page n is requested only when pages 1..n-1 have each returned at
\* least one item, the page number moving on by one at a time; and a page is
\* asked for at most once per size, in the order of the 4 sizes, with at most
\* `retries` GETs per request, so at most 4 * retries GETs per page.
C33_PagingTerminates ==
    /\ PagerActive ~> (pager.pc \in {"returned", "thrown"})
    /\ [](PagerActive =>
            /\ pager.page = Len(pager.pages) + 1
            /\ \A k \in 1..Len(pager.pages) : pager.pages[k] # <<>>)
    /\ [][ (PagerActive /\ pager'.page # pager.page)
           => /\ pager'.page = pager.page + 1
              /\ pager'.size = 1
              /\ fetch.pc = "returned"
              /\ PageOf(upstream.list, pager.page, PageSizes[pager.size]) # <<>>
              /\ pager'.pages = Append(pager.pages,
                    PageOf(upstream.list, pager.page, PageSizes[pager.size])) ]_vars
    /\ [][ (PagerActive /\ pager'.page = pager.page /\ pager'.size # pager.size)
           => /\ pager.pc = "pause"
              /\ pager'.size = pager.size + 1 ]_vars
    /\ [](pager.size <= Len(PageSizes) /\ fetch.gets <= Retries)
    /\ [](PagerActive =>
            (pager.size - 1) * Retries + fetch.gets <= Len(PageSizes) * Retries)

\* page 2 has been given up after `retries` GETs at each of the 4 sizes, and
\* the fetch has returned the items of page 1
C33_Witness ==
    /\ pager.pc = "returned"
    /\ pager.gaveUp
    /\ pager.page = 2
    /\ pager.size = Len(PageSizes)
    /\ pager.pauses = Len(PageSizes)
    /\ pager.all = pager.pages[1]

====
